---- MODULE Spec2Model ----
(***************************************************************************)
(* The data-access engine of cordex (DatabaseRepository): the write        *)
(* batcher, the document tree, the read cache and the repository facade,   *)
(* as a state machine over the JavaScript event loop.                      *)
(*                                                                         *)
(* One action is one synchronous segment of a handler: the code between    *)
(* two awaits.  A segment that is waiting for a promise that is already    *)
(* resolved (a microtask) runs before any timer callback or I/O completion *)
(* (a macrotask) is delivered; callers may issue new calls at any point.   *)
(* Arrays are heap cells, because the code shares and mutates them in      *)
(* place (the cached list, the list handed to replaceAll).                 *)
(* Timers are abstracted to "pending or not": a pending timer may fire at  *)
(* any later macrotask turn.                                               *)
(***************************************************************************)
EXTENDS Integers, Sequences, FiniteSets, TLC

\* ---------------------------------------------------------------- bounds
\* Calls the callers issue in one run.
MaxTasks == 3
\* Durable writes the backing file rejects in one run.
MaxFail == 1
\* The batch size the model runs with (the code's is 100).
BatchCap == 2
\* Durable writes the backing file rejects in one run of the retry
\* specification: enough for one call to use up its attempts.
MaxFailRetry == 3
\* Durable writes the backing file rejects in one run of the bulk
\* specification: enough for one deleteById to use up the attempts of its
\* replaceAll in each of its own attempts.
MaxFailBulk == 9
\* Steps of the clock an entry stays in the cache without being accessed.
MaxIdleTicks == 2
\* Cache lookups in one run of the cache specification.
MaxLookups == 5
\* Cache lookups in one run of the eviction specification: enough to cache
\* six entries.
MaxFillLookups == 8

\* ------------------------------------------------------ program constants
MAX_BATCH_SIZE == BatchCap
MAX_RETRIES == 3
BATCH_DELAY_MS == 50
RETRY_DELAY_MS == 100
\* The defaults initialize(config) gives the cache settings.
DefaultCacheTTL == 5 * 60 * 1000
DefaultMaxCacheSize == 1000

\* ------------------------------------------------------------ the values
Null == 0
NoEntry == [none |-> TRUE]
\* this.config before initialize (null): `this.config?.enableCaching` is
\* undefined, which is falsy.
NoConfig == [enableCaching |-> FALSE, cacheTTL |-> 0, maxCacheSize |-> 0]
\* The cache settings initialize(config) leaves when config names none.
DefaultConfig ==
    [enableCaching |-> TRUE, cacheTTL |-> DefaultCacheTTL,
     maxCacheSize |-> DefaultMaxCacheSize]
NoStats == [hits |-> 0, misses |-> 0, evictions |-> 0]
NoEnt == [cls |-> "-", guildId |-> <<>>, id |-> <<>>, timestamp |-> 0]

\* Strings are sequences of characters, so that startsWith is the code's.
Sep == <<":">>
Classes == {"A"}
\* The classes the application registers in the entity registry at start-up,
\* and one it does not: B, a subclass of A.
Registered == Classes
Unregistered == {"B"}
\* A class that declares no static storageKey.
Keyless == {"N"}
CollectionKeys == {<<"g">>, <<"g", ":", "2">>}
Ids == {<<"1">>, <<"2">>}
\* The ids getById is also asked for where the cache is filled up: one more,
\* which no entity has.
CacheIds == Ids \cup {<<"3">>}

\* The static storageKey of an entity class: B inherits the one A declares,
\* and a class without one gives undefined (falsy, as the empty string is).
StorageKeyOf(cls) == IF cls \in Keyless THEN <<>> ELSE <<"A">>
StorageKeys == {StorageKeyOf(c) : c \in Classes}

\* A (collectionKey, storageKey) list of the document tree.
Lists == CollectionKeys \X StorageKeys

TaskIds == 1..MaxTasks
\* An entity object: its class and its fields.
Stamps == {1, 2}
Entities == [cls : Classes, guildId : CollectionKeys, id : Ids, timestamp : Stamps]

\* The entities a caller may pass to store in the batcher's specification.
BatchInputs ==
    [cls : Classes, guildId : CollectionKeys, id : {<<"1">>}, timestamp : {1}]

\* Heap addresses of arrays: enough for every holder of a reference.
Addr == 1..(2 * Cardinality(Lists) + 2 * MaxTasks)
Free == [used |-> FALSE, els |-> <<>>]
Array(els) == [used |-> TRUE, els |-> els]

\* ----------------------------------------------------------------- state
VARIABLES
    initialized,    \* this.initialized && this.config !== null
    config,         \* the cache settings of this.config (NoConfig for null)
    entityRegistry, \* TRUE when the config holds an entity registry
    registry,       \* the EntityRegistry's map: its entries
    dbInstance,     \* TRUE once a database handle is held (not null)
    disk,           \* the backing file: list -> what is stored for it
    pendingWrites,  \* the FIFO queue of PendingWrite
    writeTimeout,   \* TRUE while the debounce timer is pending
    timers,         \* the pending setTimeout callbacks of the batcher
    isWriting,      \* the in-flight-flush guard
    runs,           \* performBatchWrite invocations past their guard
    data,           \* the handle's data: list -> address of its array, or Null
    heap,           \* address -> the array's elements, or Free
    cache,          \* cache key -> entry, or NoEntry
    cacheStats,     \* the hit, miss and eviction counters
    ioQueue,        \* dbInstance.write() calls not yet completed, oldest first
    tasks,          \* the calls issued so far: position and locals
    nTasks,         \* how many calls have been issued
    nFail,          \* durable writes rejected so far
    ver,            \* history: list -> stamp of the last mutation applied to it
    hist            \* history: what the claims need to remember

vars == <<initialized, config, entityRegistry, registry, dbInstance, disk, pendingWrites, writeTimeout, timers, isWriting, runs, data, heap,
          cache, cacheStats, ioQueue, tasks, nTasks, nFail, ver, hist>>

\* ------------------------------------------------------------- sequences
IsPrefix(s, t) == Len(s) <= Len(t) /\ SubSeq(t, 1, Len(s)) = s

Min(S) == CHOOSE x \in S : \A y \in S : x <= y

Max(S) == CHOOSE x \in S : \A y \in S : y <= x

\* String.prototype.startsWith
StartsWith(key, pattern) == IsPrefix(pattern, key)

\* ------------------------------------------------------------- cache keys
\* getCacheKey(entityType, collectionKey, suffix?): an empty suffix is falsy.
getCacheKey(entityType, collectionKey, suffix) ==
    IF suffix # <<>>
    THEN entityType \o Sep \o collectionKey \o Sep \o suffix
    ELSE entityType \o Sep \o collectionKey

ListKey(l) == getCacheKey(l[2], l[1], <<>>)

CacheKeys == {ListKey(l) : l \in Lists}
             \cup {getCacheKey(l[2], l[1], i) : l \in Lists, i \in CacheIds}

\* The keys the cache holds an entry for.
CachedKeys(c) == {k \in CacheKeys : c[k] # NoEntry}

\* The Map keeps its entries in insertion order: seq is the place of an
\* entry in that order, counted again when entries have gone.
MapOrder(c) ==
    [k \in CacheKeys |->
        IF c[k] = NoEntry THEN NoEntry
        ELSE [c[k] EXCEPT !.seq =
                 Cardinality({x \in CachedKeys(c) : c[x].seq <= c[k].seq})]]

\* The cache after `ms` milliseconds have gone by.
Aged(c, ms) ==
    [k \in CacheKeys |->
        IF c[k] = NoEntry THEN NoEntry
        ELSE [c[k] EXCEPT !.expiresIn = IF @ - ms < 0 THEN -1 ELSE @ - ms,
                          !.idle = @ + ms]]

\* clearCacheByPattern(pattern): every key that starts with the pattern goes.
clearCacheByPattern(c, pattern) ==
    MapOrder([k \in CacheKeys |->
                 IF StartsWith(k, pattern) THEN NoEntry ELSE c[k]])

\* ------------------------------------------------------------------ heap
\* The addresses some holder refers to: the tree, the cache, the locals of
\* the calls.
Refs(d, c, ts) ==
    {d[l] : l \in Lists}
    \cup {c[k].ref : k \in {x \in CacheKeys : c[x] # NoEntry}}
    \cup {ts[t].list : t \in TaskIds} \cup {ts[t].objs : t \in TaskIds}

\* The heap without the arrays nothing refers to any more.
Collect(h, d, c, ts) ==
    [a \in Addr |-> IF a \in Refs(d, c, ts) THEN h[a] ELSE Free]

\* The address a new array gets.
NewAddr(h) == Min({a \in Addr : ~h[a].used})

\* The elements of a list of the tree (empty when the list is absent).
ListOf(d, h, l) == IF d[l] = Null THEN <<>> ELSE h[d[l]].els

\* ----------------------------------------------------------------- tasks
NoPromise == <<0, 0>>
\* An option that is not given.
Undefined == -1
NoOptions ==
    [filter |-> "none", sort |-> "none", limit |-> Undefined, offset |-> Undefined]
IdleTask ==
    [op |-> "none", pc |-> "idle", ent |-> NoEnt, ck |-> <<>>, sk |-> <<>>,
     id |-> <<>>, list |-> Null, lver |-> 0, objs |-> Null,
     maxAgeHours |-> 0, now |-> 0, attempt |-> 0, sub |-> 0, res |-> <<>>, cnt |-> 0,
     out |-> "", mver |-> 0, seen |-> 0, queued |-> {}, busy |-> FALSE,
     delay |-> 0, options |-> NoOptions,
     items |-> <<>>, idx |-> 0, child |-> 0, extractor |-> "-",
     successful |-> 0, failed |-> 0, errors |-> <<>>]

\* A call that has returned: only its outcome is kept (out, res, cnt), with
\* the history the claims read (attempt, seen, lver, queued, busy, the
\* object a storeUnique was called with, the options of a query, the class
\* and the extractor of a register), and
\* for a bulk operation its arguments and its BulkOperationResult.
Done(task, out, res) ==
    [IdleTask EXCEPT !.op = task.op, !.pc = "done", !.out = out, !.res = res,
                     !.ent = IF task.op \in {"storeUnique", "register"}
                             THEN task.ent ELSE NoEnt,
                     !.extractor = task.extractor,
                     !.options = task.options,
                     !.cnt = task.cnt, !.attempt = task.attempt,
                     !.ck = IF task.op \in {"getAll", "getById"}
                            THEN task.ck ELSE <<>>,
                     !.sk = IF task.op \in {"getAll", "getById"}
                            THEN task.sk ELSE <<>>,
                     !.id = IF task.op = "getById" THEN task.id ELSE <<>>,
                     !.seen = task.seen, !.lver = task.lver,
                     !.queued = task.queued, !.busy = task.busy,
                     !.items = task.items, !.idx = task.idx,
                     !.successful = task.successful, !.failed = task.failed,
                     !.errors = task.errors]

\* The call a bulk operation awaits has settled: the continuation of the
\* loop is queued.
BulkReady(t) == tasks[t].pc = "bk_wait" /\ tasks[tasks[t].child].pc = "done"

\* The positions at which a call is a microtask: its promise is resolved
\* and its continuation is queued.
MicroPcs == {"ga_read", "got", "ra_apply"}

\* No microtask is queued: the event loop may deliver a macrotask.
MacroOK ==
    /\ \A t \in TaskIds : tasks[t].pc \notin MicroPcs /\ ~BulkReady(t)
    /\ \A r \in runs : r.pc # "init"

\* The list a pending write is destined for.
ListOfWrite(w) == <<w.collectionKey, w.storageKey>>

Promises(batch) == {batch[i].promise : i \in 1..Len(batch)}

\* History: a batch as the set of its <<promise, list>> pairs.
BatchMembers(batch) ==
    {<<batch[i].promise, ListOfWrite(batch[i])>> : i \in 1..Len(batch)}

\* The promise a call is waiting on: the PendingWrite of its current attempt.
PromiseOf(t) == <<t, tasks[t].attempt>>

\* ------------------------------------------------------- the entity registry
\* The collection key extractors classes are registered with: the object's
\* guildId, and one key shared by all objects.
Extractors == {"byGuild", "shared"}

\* registration.getCollectionKey(object)
getCollectionKey(extractor, e) ==
    IF extractor = "byGuild" THEN e.guildId ELSE <<"g", ":", "2">>

\* Map.prototype.get's undefined.
NoRegistration == [storageKey |-> <<>>, getCollectionKey |-> "-"]

\* A faulty Map.set that keeps the entries the key had.
MapAdd(m, k, v) == m \cup {[key |-> k, val |-> v]}

\* Map.prototype.set: the entry of the key, if any, gives way to the new one.
MapSet(m, k, v) == {x \in m : x.key # k} \cup {[key |-> k, val |-> v]}

\* Map.prototype.get
MapGet(m, k) ==
    IF \E x \in m : x.key = k THEN (CHOOSE x \in m : x.key = k).val
    ELSE NoRegistration

\* A faulty lookup that falls back to the registration of A for an instance
\* of its subclass B.
getRegistrationForSupertype(m, e) ==
    IF e.cls = "B" /\ MapGet(m, "B") = NoRegistration THEN MapGet(m, "A")
    ELSE MapGet(m, e.cls)

\* getRegistrationForInstance(entity): the entry of entity.constructor.
getRegistrationForInstance(m, e) == MapGet(m, e.cls)

\* The registry after the application's start-up: every class of Registered
\* with the guildId extractor.
StartUpRegistry ==
    {[key |-> c, val |-> [storageKey |-> StorageKeyOf(c),
                          getCollectionKey |-> "byGuild"]] : c \in Registered}

\* ------------------------------------------------------------------ Init
EmptyHist ==
    [base |-> [l \in Lists |-> <<>>], log |-> <<>>, writes |-> 0, first |-> -1,
     durable |-> {}, settled |-> {}, batches |-> {}, clock |-> 0,
     done |-> [l \in Lists |-> 0], quiet |-> BATCH_DELAY_MS, window |-> 0]

\* What the file holds for a list that is absent from it.
Absent == [present |-> FALSE, els |-> <<>>, ver |-> 0]

\* The state after construction, over a backing file that holds `file` and
\* with a registry that holds the entries `registered`.
InitOver(file, registered) ==
    /\ initialized = FALSE
    /\ config = NoConfig
    /\ entityRegistry = FALSE
    /\ registry = registered
    /\ dbInstance = FALSE
    /\ disk = file
    /\ pendingWrites = <<>>
    /\ writeTimeout = FALSE
    /\ timers = <<>>
    /\ isWriting = FALSE
    /\ runs = {}
    /\ data = [l \in Lists |-> Null]
    /\ heap = [a \in Addr |-> Free]
    /\ cache = [k \in CacheKeys |-> NoEntry]
    /\ cacheStats = NoStats
    /\ ioQueue = <<>>
    /\ tasks = [t \in TaskIds |-> IdleTask]
    /\ nTasks = 0
    /\ nFail = 0
    /\ ver = [l \in Lists |-> 0]
    /\ hist = EmptyHist

\* What a backing file that does not exist yet holds.
NoFile == [l \in Lists |-> Absent]

\* The state after construction when there is no backing file yet and the
\* application has registered its entity classes.
Init == InitOver(NoFile, StartUpRegistry)

\* initialize(config): the defaults (caching enabled, default TTL and
\* capacity) with the settings the caller gives spread over them; the config
\* holds an entity registry or not.
InitializeWith(withRegistry, settings) ==
    /\ initialized' = TRUE
    /\ config' = settings
    /\ entityRegistry' = withRegistry
    /\ UNCHANGED <<registry, dbInstance, disk, pendingWrites, writeTimeout, timers, isWriting,
                   runs, data, heap, cache, cacheStats, ioQueue, tasks, nTasks, nFail, ver,
                   hist>>

\* initialize(config) with no cache settings in config.
Initialize(withRegistry) == InitializeWith(withRegistry, DefaultConfig)

\* ----------------------------------------------------- the database handle
\* What dbInstance.write() serialises when it is called: the whole tree.
Snapshot(d, h, v) ==
    [l \in Lists |->
        IF d[l] = Null THEN Absent
        ELSE [present |-> TRUE, els |-> h[d[l]].els, ver |-> v[l]]]

RECURSIVE LoadTree(_, _, _)
\* The tree of a handle that JSONFilePreset has read from the file: a new
\* array for every list the file holds.
LoadTree(h, d, L) ==
    IF L = {} THEN [h |-> h, d |-> d]
    ELSE LET l == CHOOSE x \in L : TRUE
             a == NewAddr(h)
         IN IF disk[l].present
            THEN LoadTree([h EXCEPT ![a] = Array(disk[l].els)],
                          [d EXCEPT ![l] = a], L \ {l})
            ELSE LoadTree(h, [d EXCEPT ![l] = Null], L \ {l})

\* initializeDatabase when it is called: with a handle it returns at once
\* (`yes`), without one it starts loading the file (`no`).
initializeDatabase(yes, no) == IF dbInstance THEN yes ELSE no

\* The load of an initializeDatabase call completes: `this.dbInstance`
\* becomes the handle just read, whatever it was, and the caller (call t, or
\* for t = 0 the performBatchWrite run r) goes on.
LoadDone(t, r) ==
    /\ MacroOK
    /\ \/ /\ t # 0
          /\ tasks[t].pc \in {"ga_load", "ra_load"}
          /\ runs' = runs
       \/ /\ t = 0
          /\ r \in runs
          /\ r.pc = "load"
          /\ runs' = (runs \ {r}) \cup {[r EXCEPT !.pc = "init"]}
    /\ LET ts == IF t = 0 THEN tasks
                 ELSE [tasks EXCEPT ![t] =
                         [@ EXCEPT !.pc = IF @ = "ga_load" THEN "ga_read"
                                          ELSE "ra_apply"]]
           new == LoadTree(Collect(heap, [l \in Lists |-> Null], cache, ts),
                           data, Lists)
       IN /\ tasks' = ts
          /\ data' = new.d
          /\ heap' = new.h
    /\ dbInstance' = TRUE
    /\ ver' = [l \in Lists |-> disk[l].ver]
    /\ UNCHANGED <<initialized, config, entityRegistry, registry, disk, pendingWrites, writeTimeout, timers, isWriting,
                   cache, cacheStats, ioQueue, nTasks, nFail, hist>>

\* ------------------------------------------------------------------ dates
\* Instants are whole hours since the epoch.  The timestamp field of an
\* entity is new Date().toISOString() of the instant it was created at; an
\* entity record keeps the instant, and the string is formed where the code
\* compares it.

\* The host's time zone: standard time, and summer time (one hour ahead)
\* from the instant DstStart on.
DstStart == 3

\* The offset of local time from UTC in effect at instant t.
Offset(t) == IF t >= DstStart THEN 1 ELSE 0

\* LocalTime(t) of ECMAScript: the local reading at instant t.
LocalTime(t) == t + Offset(t)

\* UTC(l) of ECMAScript: the instant of a local reading; a reading that the
\* change to summer time skips is taken with the offset before the change.
UTC(l) == IF l - 1 >= DstStart THEN l - 1 ELSE l

\* d.setHours(d.getHours() - hours) on a Date that holds instant t: the
\* hours are taken off the local reading, which is then made an instant.
setHoursBack(t, hours) == UTC(LocalTime(t) - hours)

Digits == <<"0", "1", "2", "3", "4", "5", "6", "7", "8", "9">>

\* Date.prototype.toISOString, to the width of the instants used here: a
\* string of fixed width, most significant digit first.
toISOString(t) == <<Digits[(t \div 10) + 1], Digits[(t % 10) + 1]>>

\* The code unit of a character.
CodeOf(c) == CHOOSE i \in 1..Len(Digits) : Digits[i] = c

RECURSIVE StrGreater(_, _)
\* a > b on strings: the first differing code unit decides, and a string is
\* greater than its proper prefixes.
StrGreater(a, b) ==
    IF a = <<>> THEN FALSE
    ELSE IF b = <<>> THEN TRUE
    ELSE IF Head(a) # Head(b) THEN CodeOf(Head(a)) > CodeOf(Head(b))
    ELSE StrGreater(Tail(a), Tail(b))

\* ------------------------------------------------------- the write batcher
\* storeData: push a PendingWrite whose resolve/reject settle promise p.
storeData(q, collectionKey, storageKey, d, p) ==
    Append(q, [collectionKey |-> collectionKey, storageKey |-> storageKey,
               data |-> d, promise |-> p])

\* A faulty scheduleBatchWrite that sets no timer where none is pending.
scheduleNothing(timeout, resetExisting) == timeout

\* scheduleBatchWrite(resetExisting): keep a pending timer unless asked to
\* reset it; otherwise (re)start it.
scheduleBatchWrite(timeout, resetExisting) ==
    IF timeout /\ ~resetExisting THEN timeout ELSE TRUE

\* clearTimeout(this.writeTimeout): the timer the handle refers to, the one
\* set last, is no longer pending.
clearTimeout(ts, timeout) ==
    IF timeout /\ ts # <<>> THEN SubSeq(ts, 1, Len(ts) - 1) ELSE ts

\* A timer of BATCH_DELAY_MS; `by` is history: who set it.
NewTimer(by) == [left |-> BATCH_DELAY_MS, by |-> by]

\* A faulty scheduleBatchWrite that sets a timer without clearing the one
\* that is pending.
setTimeoutOnly(ts, timeout, resetExisting, by) ==
    IF timeout /\ ~resetExisting THEN ts ELSE Append(ts, NewTimer(by))

\* What scheduleBatchWrite does to the pending timers: a kept timer stays
\* as it is; otherwise the one the handle refers to is cleared and a timer
\* of BATCH_DELAY_MS is set.
setTimeout(ts, timeout, resetExisting, by) ==
    IF timeout /\ ~resetExisting THEN ts
    ELSE Append(clearTimeout(ts, timeout), NewTimer(by))

\* History: an enqueue; the first one after quiescence opens a new window,
\* and the time since the last enqueue starts again (quiet: the time since
\* the last enqueue; window: the time since the window was opened).
HistEnqueue(pw) ==
    IF pendingWrites = <<>> /\ runs = {}
    THEN [hist EXCEPT !.base = [l \in Lists |-> ListOf(data, heap, l)],
                      !.log = <<pw>>, !.writes = 0, !.first = -1, !.quiet = 0,
                      !.window = 0]
    ELSE [hist EXCEPT !.log = Append(@, pw), !.quiet = 0]

\* storeData as a step of a call: enqueue and reset the debounce timer.
Enqueue(collectionKey, storageKey, d, p) ==
    /\ pendingWrites' = storeData(pendingWrites, collectionKey, storageKey, d, p)
    /\ writeTimeout' = scheduleBatchWrite(writeTimeout, TRUE)
    /\ timers' = setTimeout(timers, writeTimeout, TRUE, "storeData")
    /\ hist' = HistEnqueue([collectionKey |-> collectionKey,
                            storageKey |-> storageKey, data |-> d,
                            promise |-> p])

\* The time that goes by in one step of the clock.
TickMs == BATCH_DELAY_MS \div 2

\* Time passes: TickMs go by on every pending timer and every cache entry.
\* A timer whose time is up fires before more time passes, and the clock
\* stops when nothing is left to wait for.
Tick ==
    /\ MacroOK
    /\ \A i \in 1..Len(timers) : timers[i].left > 0
    /\ \A k \in CachedKeys(cache) : cache[k].idle < MaxIdleTicks * TickMs
    /\ \/ timers # <<>>
       \/ hist.quiet < BATCH_DELAY_MS
       \/ CachedKeys(cache) # {}
    /\ timers' = [i \in 1..Len(timers) |->
                     [timers[i] EXCEPT !.left = Max({@ - TickMs, 0})]]
    /\ cache' = Aged(cache, TickMs)
    /\ hist' = IF timers # <<>> \/ hist.quiet < BATCH_DELAY_MS
               THEN [hist EXCEPT
                        !.quiet = Min({@ + TickMs, BATCH_DELAY_MS}),
                        !.window = Min({@ + TickMs, 2 * BATCH_DELAY_MS})]
               ELSE hist
    /\ UNCHANGED <<initialized, config, entityRegistry, registry, dbInstance, disk,
                   pendingWrites, writeTimeout, isWriting, runs, data, heap,
                   cacheStats, ioQueue, tasks, nTasks, nFail, ver>>

\* Faulty guards: one that forgets the flush in flight, one that forgets the
\* empty queue.
SkipsOnlyWhenEmpty(q, writing) == q = <<>>

SkipsOnlyWhenWriting(q, writing) == writing

\* performBatchWrite's guard: TRUE when the invocation returns at once.
performBatchWriteSkips(q, writing) == q = <<>> \/ writing

\* Faulty drains: one record per flush; the whole queue whatever its length.
BatchOfOne(q) == SubSeq(q, 1, Min({Len(q), 1}))

BatchOfAll(q) == q

\* pendingWrites.splice(0, MAX_BATCH_SIZE): the batch that is drained.
BatchOf(q) ==
    SubSeq(q, 1, IF Len(q) < MAX_BATCH_SIZE THEN Len(q) ELSE MAX_BATCH_SIZE)

\* performBatchWrite up to its first await, invoked by the timer (caller 0)
\* or by the flushPendingWrites call `caller`.
performBatchWrite(caller) ==
    IF performBatchWriteSkips(pendingWrites, isWriting)
    THEN UNCHANGED <<pendingWrites, isWriting, runs, hist>>
    ELSE LET batch == BatchOf(pendingWrites)
         IN /\ isWriting' = TRUE
            /\ pendingWrites' =
                   SubSeq(pendingWrites, Len(batch) + 1, Len(pendingWrites))
            /\ runs' = runs \cup {[pc |-> IF dbInstance THEN "init" ELSE "load",
                                    batch |-> batch, caller |-> caller]}
            /\ hist' = [hist EXCEPT
                   !.first = IF @ = -1 THEN Len(hist.log) ELSE @,
                   !.batches = @ \cup {BatchMembers(batch)}]

\* The debounce timer fires, whatever time is left on it (time is left out):
\* writeTimeout = null; performBatchWrite().
TimerFire ==
    /\ timers # <<>>
    /\ MacroOK
    /\ timers' = Tail(timers)
    /\ writeTimeout' = FALSE
    /\ performBatchWrite(0)
    /\ UNCHANGED <<initialized, config, entityRegistry, registry, dbInstance, disk, data, heap, cache, cacheStats, ioQueue, tasks, nTasks,
                   nFail, ver>>

\* The debounce timer fires when its time is up.
TimerExpires ==
    /\ timers # <<>>
    /\ Head(timers).left = 0
    /\ TimerFire

\* A faulty loop that stops after the first record of the batch.
ApplyHead(h, d, batch) ==
    IF batch = <<>> THEN [h |-> h, d |-> d]
    ELSE LET w == Head(batch)
             l == ListOfWrite(w)
             a == IF d[l] = Null THEN NewAddr(h) ELSE d[l]
             old == IF d[l] = Null THEN <<>> ELSE h[a].els
             el == [e |-> w.data, w |-> w.promise]
         IN [h |-> [h EXCEPT ![a] = Array(Append(old, el))],
             d |-> [d EXCEPT ![l] = a]]

RECURSIVE ApplyBatchUnique(_, _, _)
\* A loop that protects ids: it skips a record whose id the list holds.
ApplyBatchUnique(h, d, batch) ==
    IF batch = <<>> THEN [h |-> h, d |-> d]
    ELSE LET w == Head(batch)
             l == ListOfWrite(w)
             a == IF d[l] = Null THEN NewAddr(h) ELSE d[l]
             old == IF d[l] = Null THEN <<>> ELSE h[a].els
             el == [e |-> w.data, w |-> w.promise]
             dup == \E i \in 1..Len(old) : old[i].e.id = w.data.id
         IN ApplyBatchUnique(
                [h EXCEPT ![a] = Array(IF dup THEN old ELSE Append(old, el))],
                [d EXCEPT ![l] = a], Tail(batch))

RECURSIVE ApplyBatch(_, _, _)
\* The loop over the batch: create the list if it is absent, push the record.
\* Each element remembers the PendingWrite that pushed it (history).
ApplyBatch(h, d, batch) ==
    IF batch = <<>> THEN [h |-> h, d |-> d]
    ELSE LET w == Head(batch)
             l == ListOfWrite(w)
             a == IF d[l] = Null THEN NewAddr(h) ELSE d[l]
             old == IF d[l] = Null THEN <<>> ELSE h[a].els
             el == [e |-> w.data, w |-> w.promise]
         IN ApplyBatch([h EXCEPT ![a] = Array(Append(old, el))],
                       [d EXCEPT ![l] = a], Tail(batch))

\* The lists a batch has records for.
Touched(batch) == {ListOfWrite(batch[i]) : i \in 1..Len(batch)}

\* performBatchWrite after `await initializeDatabase`: apply the whole batch
\* to the tree, then issue the single dbInstance.write().
BatchApply(r) ==
    /\ r \in runs
    /\ r.pc = "init"
    /\ LET out == ApplyBatch(heap, data, r.batch)
           nv == [l \in Lists |->
                    IF l \in Touched(r.batch) THEN hist.clock + 1 ELSE ver[l]]
       IN /\ heap' = out.h
          /\ data' = out.d
          /\ ver' = nv
          /\ tasks' = [t \in TaskIds |->
                IF PromiseOf(t) \in Promises(r.batch)
                THEN [tasks[t] EXCEPT !.mver = hist.clock + 1]
                ELSE tasks[t]]
          /\ ioQueue' = Append(ioQueue,
                 [kind |-> "batch", batch |-> r.batch, t |-> 0,
                  snap |-> Snapshot(out.d, out.h, nv)])
    /\ runs' = (runs \ {r}) \cup {[r EXCEPT !.pc = "write"]}
    /\ hist' = [hist EXCEPT !.writes = @ + 1, !.clock = @ + 1]
    /\ UNCHANGED <<initialized, config, entityRegistry, registry, dbInstance, disk, pendingWrites, writeTimeout, timers,
                   isWriting, cache, cacheStats, nTasks, nFail>>

\* A faulty catch that gives up after the first failure.
executeWithRetryOnce(task) == Done(task, "error", <<>>)

\* executeWithRetry's catch: wait attempt * RETRY_DELAY_MS and run the
\* operation again, or rethrow after MAX_RETRIES attempts.
executeWithRetryCatch(task) ==
    IF task.attempt < MAX_RETRIES
    THEN [task EXCEPT !.pc = "backoff", !.list = Null, !.objs = Null, !.sub = 0,
                      !.delay = RETRY_DELAY_MS * task.attempt]
    ELSE Done(task, "error", <<>>)

\* A faulty finally block that leaves the rest of the queue unscheduled.
finallyNoSchedule(q, timeout) == timeout

\* performBatchWrite's finally block: schedule the next batch if writes are
\* pending, without resetting a pending timer.
finallySchedule(q, timeout) ==
    IF q # <<>> THEN scheduleBatchWrite(timeout, FALSE) ELSE timeout

\* A faulty completion that resolves the promises whatever the outcome.
SettleTaskResolves(t, r, ok) ==
    IF PromiseOf(t) \in Promises(r.batch) /\ tasks[t].pc = "sd_wait"
    THEN Done(tasks[t], IF tasks[t].op = "store" THEN "void" ELSE "inserted",
              <<>>)
    ELSE IF t = r.caller THEN Done(tasks[t], "void", <<>>)
    ELSE tasks[t]

\* A faulty completion that fails per list: on an error it rejects only the
\* writes to the list of the batch's first record and resolves the others.
SettleTaskPerList(t, r, ok) ==
    IF PromiseOf(t) \in Promises(r.batch) /\ tasks[t].pc = "sd_wait"
    THEN IF ok \/ <<tasks[t].ck, tasks[t].sk>> # ListOfWrite(Head(r.batch))
         THEN Done(tasks[t],
                   IF tasks[t].op = "store" THEN "void" ELSE "inserted", <<>>)
         ELSE executeWithRetryCatch(tasks[t])
    ELSE IF t = r.caller THEN Done(tasks[t], "void", <<>>)
    ELSE tasks[t]

\* What the completion of a batch's write does to a call.  A resolved
\* storeData promise lets store (storeUnique) run to its end: it returns void
\* (false: inserted).  A rejected one goes to executeWithRetry's catch.  The
\* flushPendingWrites call that started the batch returns.
SettleTask(t, r, ok) ==
    IF PromiseOf(t) \in Promises(r.batch) /\ tasks[t].pc = "sd_wait"
    THEN IF ok
         THEN Done(tasks[t],
                   IF tasks[t].op = "store" THEN "void" ELSE "inserted", <<>>)
         ELSE executeWithRetryCatch(tasks[t])
    ELSE IF t = r.caller THEN Done(tasks[t], "void", <<>>)
    ELSE tasks[t]

\* The calls whose storeData promise is in the batch.
Waiting(batch) ==
    {t \in TaskIds : PromiseOf(t) \in Promises(batch) /\ tasks[t].pc = "sd_wait"}

RECURSIVE ClearEach(_, _)
\* The cache after each call of T has invalidated the entries of its list.
ClearEach(c, T) ==
    IF T = {} THEN c
    ELSE LET t == CHOOSE x \in T : TRUE
         IN ClearEach(clearCacheByPattern(c,
                          getCacheKey(tasks[t].sk, tasks[t].ck, <<>>)),
                      T \ {t})

\* History: the newest mutation of each list that a completed call of T made.
HistDone(T) ==
    [l \in Lists |->
        Max({hist.done[l]}
            \cup {tasks[t].mver : t \in {x \in T : <<tasks[x].ck, tasks[x].sk>> = l}})]

\* dbInstance.write() of a batch completes: resolve (or, on an error,
\* reject) every promise of the batch; finally clear the guard and schedule
\* the next batch if writes are pending.  The continuations of the resolved
\* promises run before anything else: each invalidates the cache entries of
\* its list and returns.  The file rejects at most `cap` writes in a run.
BatchWriteEnds(ok, cap) ==
    /\ ioQueue # <<>>
    /\ Head(ioQueue).kind = "batch"
    /\ MacroOK
    /\ IF ok THEN nFail' = nFail ELSE nFail < cap /\ nFail' = nFail + 1
    /\ LET r == CHOOSE x \in runs : x.pc = "write" /\ x.batch = Head(ioQueue).batch
           resolved == {t \in Waiting(r.batch) : tasks'[t].pc = "done"
                                                  /\ tasks'[t].out # "error"}
       IN /\ tasks' = [t \in TaskIds |-> SettleTask(t, r, ok)]
          /\ cache' = ClearEach(cache, resolved)
          /\ heap' = Collect(heap, data, cache', tasks')
          /\ runs' = runs \ {r}
          /\ hist' = [hist EXCEPT
                 !.durable = IF ok THEN @ \cup Promises(r.batch) ELSE @,
                 !.settled = @ \cup Promises(r.batch),
                 !.done = HistDone(resolved)]
    /\ disk' = IF ok THEN Head(ioQueue).snap ELSE disk
    /\ ioQueue' = Tail(ioQueue)
    /\ isWriting' = FALSE
    /\ writeTimeout' = finallySchedule(pendingWrites, writeTimeout)
    /\ timers' = IF writeTimeout' /\ ~writeTimeout
                 THEN setTimeout(timers, writeTimeout, FALSE, "finally")
                 ELSE timers
    /\ UNCHANGED <<cacheStats, initialized, config, entityRegistry, registry, dbInstance, pendingWrites, data, nTasks, ver>>

BatchWriteDone(ok) == BatchWriteEnds(ok, MaxFail)

\* ------------------------------------------------------------------ store
\* A new call: the next free slot of the task table.
NewTask(op) == [IdleTask EXCEPT !.op = op, !.attempt = 1]

\* A faulty test that lets every class in.
registerRefusesNothing(storageKey) == FALSE

\* register's test `!storageKey`: undefined and the empty string are falsy.
registerRefuses(storageKey) == storageKey = <<>>

\* register(EntityClass, getCollectionKey): a class without a static
\* storageKey is refused with an error; otherwise the entry of the class is
\* set.
Register(cls, extractor) ==
    /\ nTasks < MaxTasks
    /\ nTasks' = nTasks + 1
    /\ LET storageKey == StorageKeyOf(cls)
           me == [NewTask("register") EXCEPT !.ent = [NoEnt EXCEPT !.cls = cls],
                                             !.extractor = extractor]
       IN IF registerRefuses(storageKey)
          THEN /\ tasks' = [tasks EXCEPT ![nTasks + 1] = Done(me, "error", <<>>)]
               /\ registry' = registry
          ELSE /\ tasks' = [tasks EXCEPT ![nTasks + 1] = Done(me, "void", <<>>)]
               /\ registry' = MapSet(registry, cls,
                                     [storageKey |-> storageKey,
                                      getCollectionKey |-> extractor])
    /\ UNCHANGED <<initialized, config, entityRegistry, dbInstance, disk, pendingWrites,
                   writeTimeout, timers, isWriting, runs, data, heap, cache, cacheStats, ioQueue,
                   nFail, ver, hist>>

\* The configuration error of store and storeUnique: no registry in the
\* config, or no registration for the object's class.
ConfigError(e) ==
    ~entityRegistry \/ getRegistrationForInstance(registry, e) = NoRegistration

\* The keys store and storeUnique take from the registration of an object.
KeysOfObject(e) ==
    LET registration == getRegistrationForInstance(registry, e)
    IN [collectionKey |-> getCollectionKey(registration.getCollectionKey, e),
        storageKey |-> registration.storageKey]

\* A faulty store that does not look at isInitialized().
storeBeginUnguarded(ts, t, e) ==
    LET me == [NewTask("store") EXCEPT !.ent = e,
                  !.ck = KeysOfObject(e).collectionKey,
                  !.sk = KeysOfObject(e).storageKey]
    IN /\ tasks' = [ts EXCEPT ![t] = [me EXCEPT !.pc = "sd_wait"]]
       /\ Enqueue(me.ck, me.sk, e, <<t, 1>>)

\* store(object), up to `await this.storeData(...)`: resolve the
\* registration, derive the keys, enqueue.  A configuration error is thrown
\* inside the operation executeWithRetry runs.  The call takes slot t of the
\* task table ts.
storeBegin(ts, t, e) ==
    LET new == [NewTask("store") EXCEPT !.ent = e]
        me == [new EXCEPT !.ck = KeysOfObject(e).collectionKey,
                             !.sk = KeysOfObject(e).storageKey]
    IN IF ~initialized
       THEN /\ tasks' = [ts EXCEPT ![t] =
                              Done([new EXCEPT !.attempt = 0], "void", <<>>)]
            /\ UNCHANGED <<pendingWrites, writeTimeout, timers, hist>>
       ELSE IF ConfigError(e)
       THEN /\ tasks' = [ts EXCEPT ![t] = executeWithRetryCatch(new)]
            /\ UNCHANGED <<pendingWrites, writeTimeout, timers, hist>>
       ELSE /\ tasks' = [ts EXCEPT ![t] = [me EXCEPT !.pc = "sd_wait"]]
            /\ Enqueue(me.ck, me.sk, e, <<t, 1>>)

\* A call of store by a user.
StoreCall(e) ==
    /\ nTasks < MaxTasks
    /\ nTasks' = nTasks + 1
    /\ storeBegin(tasks, nTasks + 1, e)
    /\ UNCHANGED <<initialized, config, entityRegistry, registry, dbInstance, disk, isWriting, runs, data, heap,
                   cache, cacheStats, ioQueue, nFail, ver>>

\* The backoff timer of executeWithRetry fires: the next attempt of store
\* runs the operation again, which enqueues the same object again.
StoreRetry(t) ==
    /\ tasks[t].pc = "backoff"
    /\ tasks[t].op = "store"
    /\ MacroOK
    /\ LET e == tasks[t].ent
           new == [tasks[t] EXCEPT !.attempt = @ + 1, !.delay = 0]
       IN IF ConfigError(e)
          THEN /\ tasks' = [tasks EXCEPT ![t] = executeWithRetryCatch(new)]
               /\ UNCHANGED <<pendingWrites, writeTimeout, timers, hist>>
          ELSE /\ tasks' = [tasks EXCEPT ![t] =
                     [new EXCEPT !.pc = "sd_wait",
                                 !.ck = KeysOfObject(e).collectionKey,
                                 !.sk = KeysOfObject(e).storageKey]]
               /\ Enqueue(KeysOfObject(e).collectionKey,
                          KeysOfObject(e).storageKey, e,
                          <<t, tasks[t].attempt + 1>>)
    /\ UNCHANGED <<initialized, config, entityRegistry, registry, dbInstance, disk, isWriting, runs, data, heap,
                   cache, cacheStats, ioQueue, nTasks, nFail, ver>>

\* ----------------------------------------------------- flushPendingWrites
\* flushPendingWrites(): clear the timer, then performBatchWrite(); the call
\* returns at once when performBatchWrite's guard returns.
FlushCall ==
    /\ nTasks < MaxTasks
    /\ nTasks' = nTasks + 1
    /\ writeTimeout' = FALSE
    /\ timers' = clearTimeout(timers, writeTimeout)
    /\ LET t == nTasks + 1
           \* history: what was queued, and whether a flush was in flight
           me == [NewTask("flush") EXCEPT
                    !.queued = Promises(pendingWrites), !.busy = isWriting]
       IN /\ performBatchWrite(t)
          /\ tasks' = [tasks EXCEPT ![t] =
                IF performBatchWriteSkips(pendingWrites, isWriting)
                THEN Done(me, "void", <<>>)
                ELSE [me EXCEPT !.pc = "fl_wait"]]
    /\ UNCHANGED <<initialized, config, entityRegistry, registry, dbInstance, disk, data, heap, cache, cacheStats, ioQueue, nFail, ver>>

\* ------------------------------------------------------------------ cache
\* An element of an array: the object and, as history, the PendingWrite that
\* pushed it (NoPromise when it came from elsewhere).  NoEl stands for null.
El(e) == [e |-> e, w |-> NoPromise]
NoEl == El(NoEnt)

\* A cache entry that holds a list (getAll) or an entity or null (getById);
\* ver is history: the version of the list the data was read from.
ListEntry(a, v) == [kind |-> "list", ref |-> a, ent |-> NoEl, ver |-> v]
EntEntry(el, v) == [kind |-> "ent", ref |-> Null, ent |-> el, ver |-> v]

\* `if (cached)`: undefined and a cached null are falsy; an array, an empty
\* one too, and an entity are truthy.
Truthy(cached) ==
    cached # NoEntry /\ (cached.kind = "list" \/ cached.ent # NoEl)

\* Times in an entry are kept relative to Date.now(): expiresIn is
\* expiresAt - Date.now(), kept down to -1 (only its sign is read), and idle
\* is Date.now() - lastAccessed.
\* A faulty test that lets an entry live for ever.
expiredNever(entry) == FALSE

\* entry.expiresAt < Date.now()
expired(entry) == entry.expiresIn < 0

\* A faulty count: a lookup that finds nothing usable is not counted.
countNothing(st) == st

\* this.cacheStats.misses++
countMiss(st) == [st EXCEPT !.misses = @ + 1]

\* getFromCache(key): with caching off, nothing; a key without an entry is a
\* miss; an entry with expiresAt < Date.now() is deleted and is a miss; any
\* other entry is a hit, is marked as accessed now and its data is returned.
\* The result is the data (NoEntry for undefined), the cache and the stats.
getFromCache(c, st, key) ==
    IF ~config.enableCaching
    THEN [data |-> NoEntry, cache |-> c, stats |-> st]
    ELSE IF c[key] = NoEntry
    THEN [data |-> NoEntry, cache |-> c, stats |-> countMiss(st)]
    ELSE IF expired(c[key])
    THEN [data |-> NoEntry, cache |-> MapOrder([c EXCEPT ![key] = NoEntry]),
          stats |-> countMiss(st)]
    ELSE [data |-> c[key],
          cache |-> [c EXCEPT ![key] = [@ EXCEPT !.accessCount = @ + 1,
                                                 !.idle = 0]],
          stats |-> [st EXCEPT !.hits = @ + 1]]

\* Math.floor(entries.length * 0.2): the double next to 0.2 is above 0.2 by
\* less than 2^-56, so the product is floored to the integer part of n / 5.
toRemove(n) == n \div 5

\* A faulty order: the Map's, whatever the entries' last access.
PlaceInMap(c, k) == c[k].seq

\* The place of the entry of key k when the entries are sorted by
\* lastAccessed, oldest first; the sort is stable, so entries accessed at
\* the same time stay in Map order.
SortedPlace(c, k) ==
    1 + Cardinality({x \in CachedKeys(c) :
                        \/ c[x].idle > c[k].idle
                        \/ c[x].idle = c[k].idle /\ c[x].seq < c[k].seq})

\* evictOldestEntries(): delete the first fifth of the sorted entries and
\* count each deletion.
evictOldestEntries(c, st) ==
    LET n == Cardinality(CachedKeys(c))
        gone == {k \in CachedKeys(c) : SortedPlace(c, k) <= toRemove(n)}
    IN [cache |-> MapOrder([k \in CacheKeys |->
                               IF k \in gone THEN NoEntry ELSE c[k]]),
        stats |-> [st EXCEPT !.evictions = @ + Cardinality(gone)]]

\* setCache(key, data): nothing with caching off.  A cache that holds
\* maxCacheSize entries or more gets an eviction pass first; then the entry
\* is set, in the place of the key's entry or at the end of the Map.
setCache(c, st, key, d) ==
    IF ~config.enableCaching THEN [cache |-> c, stats |-> st]
    ELSE LET e == IF Cardinality(CachedKeys(c)) >= config.maxCacheSize
                  THEN evictOldestEntries(c, st)
                  ELSE [cache |-> c, stats |-> st]
             place == IF e.cache[key] # NoEntry THEN e.cache[key].seq
                      ELSE Cardinality(CachedKeys(e.cache)) + 1
             entry == d @@ [expiresIn |-> config.cacheTTL, accessCount |-> 1,
                            idle |-> 0, seq |-> place]
         IN [cache |-> [e.cache EXCEPT ![key] = entry], stats |-> e.stats]

\* getCacheStats() of DiscordRepository, whose cache is the same code: the
\* counters, the size and the hit rate, Math.round(hitRate * 10000) / 100.
\* The rate is kept in hundredths of a percent; Math.round rounds halves up.
getCacheStats(c, st) ==
    LET total == st.hits + st.misses
    IN st @@ [size |-> Cardinality(CachedKeys(c)),
              hitRate |-> IF total > 0
                          THEN (2 * st.hits * 10000 + total) \div (2 * total)
                          ELSE 0]

\* What a call's lookups of `keys` (in that order) leave in the cache and
\* in the stats.
RECURSIVE Lookups(_, _, _)
Lookups(c, st, keys) ==
    IF keys = <<>> THEN [cache |-> c, stats |-> st]
    ELSE LET r == getFromCache(c, st, Head(keys))
         IN Lookups(r.cache, r.stats, Tail(keys))

\* The step of a call that looks `keys` up.  An expired entry that is
\* deleted may leave an array that nothing refers to.
Looks(keys) ==
    LET r == Lookups(cache, cacheStats, keys)
    IN /\ cache' = r.cache
       /\ cacheStats' = r.stats

\* The elements of the array at an address; Null is an empty array literal
\* that only the call holds.
ArrayAt(h, a) == IF a = Null THEN <<>> ELSE h[a].els

\* ----------------------------------------------------------------- getAll
\* getAll(EntityClass, collectionKey), up to `await initializeDatabase`, run
\* by call `me`: without a config it returns []; a cached list is returned
\* as it is (the same array).  Whatever truthy value the key holds is
\* returned: an entity that getById cached under the same key comes back
\* in the place of the list (out "entity").
getAllBegin(me) ==
    LET cached == getFromCache(cache, cacheStats,
                               getCacheKey(me.sk, me.ck, <<>>)).data
    IN IF ~initialized
       THEN [me EXCEPT !.pc = "got", !.list = Null, !.out = "uninitialized"]
       ELSE IF Truthy(cached) /\ cached.kind = "list"
       THEN [me EXCEPT !.pc = "got", !.list = cached.ref,
                       !.lver = cached.ver, !.out = "hit"]
       ELSE IF Truthy(cached)
       THEN [me EXCEPT !.pc = "got", !.list = Null, !.lver = cached.ver,
                       !.out = "entity", !.res = <<cached.ent>>]
       ELSE [me EXCEPT !.pc = initializeDatabase("ga_read", "ga_load"),
                       !.list = Null]

\* The keys getAll looks up for call `me`.
GetAllKeys(me) ==
    IF ~initialized THEN <<>> ELSE <<getCacheKey(me.sk, me.ck, <<>>)>>

\* A call of getAll.
GetAllCall(cls, collectionKey) ==
    /\ nTasks < MaxTasks
    /\ nTasks' = nTasks + 1
    /\ LET t == nTasks + 1
           sk == StorageKeyOf(cls)
           me == [NewTask("getAll") EXCEPT !.ck = collectionKey, !.sk = sk,
                      !.seen = hist.done[<<collectionKey, sk>>]]
           g == getAllBegin(me)
       IN tasks' = [tasks EXCEPT ![t] =
             IF g.pc = "got"
             THEN Done(g, g.out, IF g.out = "entity" THEN g.res
                                 ELSE ArrayAt(heap, g.list))
             ELSE g]
    /\ Looks(GetAllKeys([ck |-> collectionKey, sk |-> StorageKeyOf(cls)]))
    /\ UNCHANGED <<initialized, config, entityRegistry, registry, dbInstance, disk, pendingWrites, writeTimeout, timers, isWriting, runs,
                   data, heap, ioQueue, nFail, ver, hist>>

\* getAll after `await initializeDatabase`: an absent list gives a new empty
\* array that is not cached; otherwise the list is copied (map), the copy is
\* cached and returned.
GetAllRead(t) ==
    /\ tasks[t].pc = "ga_read"
    /\ LET l == <<tasks[t].ck, tasks[t].sk>>
           a == NewAddr(heap)
           absent == data[l] = Null
           g == [tasks[t] EXCEPT !.pc = "got", !.lver = ver[l], !.out = "miss",
                                 !.list = IF absent THEN Null ELSE a]
           h == IF absent THEN heap
                ELSE [heap EXCEPT ![a] = Array(heap[data[l]].els)]
           sc == IF absent THEN [cache |-> cache, stats |-> cacheStats]
                 ELSE setCache(cache, cacheStats, ListKey(l),
                               ListEntry(a, ver[l]))
           c == sc.cache
           ts == [tasks EXCEPT ![t] =
                    IF g.op = "getAll" THEN Done(g, "miss", ArrayAt(h, g.list))
                    ELSE g]
       IN /\ tasks' = ts
          /\ cache' = c
          /\ cacheStats' = sc.stats
          /\ heap' = Collect(h, data, c, ts)
    /\ UNCHANGED <<initialized, config, entityRegistry, registry, dbInstance, disk, pendingWrites, writeTimeout, timers, isWriting, runs,
                   data, ioQueue, nTasks, nFail, ver, hist>>

\* ---------------------------------------------------------------- getById
\* getById(EntityClass, collectionKey, entityId), up to `await getAll`: a
\* cached entity is returned (a cached null is not: it is falsy), and so is
\* a list that getAll cached under the same key (out "list").  When getAll
\* returns an entity in the place of the list, `allEntities.find` is not a
\* function and the call throws.
GetByIdCall(cls, collectionKey, entityId) ==
    /\ nTasks < MaxTasks
    /\ nTasks' = nTasks + 1
    /\ LET t == nTasks + 1
           sk == StorageKeyOf(cls)
           me == [NewTask("getById") EXCEPT !.ck = collectionKey, !.sk = sk,
                      !.id = entityId,
                      !.seen = hist.done[<<collectionKey, sk>>]]
           cached == getFromCache(cache, cacheStats,
                                  getCacheKey(sk, collectionKey, entityId)).data
           g == getAllBegin(me)
       IN tasks' = [tasks EXCEPT ![t] =
             IF Truthy(cached) /\ cached.kind = "ent"
             THEN Done([me EXCEPT !.lver = cached.ver], "hit", <<cached.ent>>)
             ELSE IF Truthy(cached)
             THEN Done([me EXCEPT !.lver = cached.ver], "list",
                       ArrayAt(heap, cached.ref))
             ELSE IF g.out = "entity" THEN Done(g, "throws", <<>>)
             ELSE g]
    /\ LET sk == StorageKeyOf(cls)
           key == getCacheKey(sk, collectionKey, entityId)
           cached == getFromCache(cache, cacheStats, key).data
       IN Looks(IF Truthy(cached) THEN <<key>>
                ELSE <<key>> \o GetAllKeys([ck |-> collectionKey, sk |-> sk]))
    /\ UNCHANGED <<initialized, config, entityRegistry, registry, dbInstance, disk, pendingWrites, writeTimeout, timers, isWriting, runs,
                   data, heap, ioQueue, nFail, ver, hist>>

\* The indices of the elements whose id is `id`.
IndicesOf(els, id) == {i \in 1..Len(els) : els[i].e.id = id}

\* getById after `await getAll`: find the first entity with the id (or
\* null), cache it under the entity's key, return it.
GetByIdFind(t) ==
    /\ tasks[t].pc = "got"
    /\ tasks[t].op = "getById"
    /\ LET els == ArrayAt(heap, tasks[t].list)
           hits == IndicesOf(els, tasks[t].id)
           el == IF hits = {} THEN NoEl ELSE els[Min(hits)]
           sc == setCache(cache, cacheStats,
                          getCacheKey(tasks[t].sk, tasks[t].ck, tasks[t].id),
                          EntEntry(el, tasks[t].lver))
           c == sc.cache
           ts == [tasks EXCEPT ![t] =
                    Done(@, IF hits = {} THEN "null" ELSE "found",
                         IF hits = {} THEN <<>> ELSE <<el>>)]
       IN /\ cache' = c
          /\ cacheStats' = sc.stats
          /\ tasks' = ts
          /\ heap' = Collect(heap, data, c, ts)
    /\ UNCHANGED <<initialized, config, entityRegistry, registry, dbInstance, disk, pendingWrites, writeTimeout, timers, isWriting, runs,
                   data, ioQueue, nTasks, nFail, ver, hist>>

\* ------------------------------------------------------------------ query
\* options.filter: no filter, or one of two predicates on an entity.
Passes(filter, e) ==
    CASE filter = "none" -> TRUE
      [] filter = "idIsOne" -> e.id = <<"1">>
      [] filter = "recent" -> e.timestamp >= 2

\* options.sort: a comparator, as the number it returns for (a, b).
Compare(sort, a, b) ==
    CASE sort = "oldestFirst" -> a.timestamp - b.timestamp
      [] sort = "newestFirst" -> b.timestamp - a.timestamp

\* entities.filter(options.filter): a new array.
Filtered(els, filter) == SelectSeq(els, LAMBDA x : Passes(filter, x.e))

RECURSIVE Sorted(_, _)
\* Array.prototype.sort with a comparator: a stable sort.  Each element goes
\* in front of the first element of the sorted prefix that compares greater.
Sorted(els, sort) ==
    IF els = <<>> THEN <<>>
    ELSE LET x == els[Len(els)]
             pre == Sorted(SubSeq(els, 1, Len(els) - 1), sort)
             gt == {i \in 1..Len(pre) : Compare(sort, pre[i].e, x.e) > 0}
             k == IF gt = {} THEN Len(pre) + 1 ELSE Min(gt)
         IN SubSeq(pre, 1, k - 1) \o <<x>> \o SubSeq(pre, k, Len(pre))

\* Array.prototype.slice(start, end): a negative index counts from the end,
\* and both are clamped to the array.
slice(els, start, end) ==
    LET n == Len(els)
        k == IF start < 0 THEN Max({n + start, 0}) ELSE Min({start, n})
        f == IF end < 0 THEN Max({n + end, 0}) ELSE Min({end, n})
    IN SubSeq(els, k + 1, f)

\* options.offset || 0
OffsetOf(options) == IF options.offset = Undefined THEN 0 ELSE options.offset

\* A faulty pipeline that takes the page before it sorts.
queryPageFirst(els, options) ==
    LET filtered == Filtered(els, options.filter)
        paged == IF options.limit # Undefined
                 THEN slice(filtered, OffsetOf(options),
                            OffsetOf(options) + options.limit)
                 ELSE IF OffsetOf(options) > 0
                 THEN slice(filtered, OffsetOf(options), Len(filtered))
                 ELSE filtered
    IN IF options.sort = "none" THEN paged ELSE Sorted(paged, options.sort)

\* The entities query returns for the array getAll gave it: filter, then
\* sort, then the page.
queryEntities(els, options) ==
    LET filtered == Filtered(els, options.filter)
        sorted == IF options.sort = "none" THEN filtered
                  ELSE Sorted(filtered, options.sort)
    IN IF options.limit # Undefined
       THEN slice(sorted, OffsetOf(options), OffsetOf(options) + options.limit)
       ELSE IF OffsetOf(options) > 0
       THEN slice(sorted, OffsetOf(options), Len(sorted))
       ELSE sorted

\* totalCount: the length of the array getAll returned, taken before the
\* filter is applied.
totalCount(els, options) == Len(els)

\* A faulty hasMore that takes a missing limit for 0.
hasMoreNoLimit(options, total) ==
    OffsetOf(options)
        + (IF options.limit = Undefined THEN 0 ELSE options.limit) < total

\* hasMore: limit !== undefined && (offset + limit) < totalCount
hasMore(options, total) ==
    options.limit # Undefined /\ OffsetOf(options) + options.limit < total

\* A call of query(EntityClass, collectionKey, options), up to
\* `await getAll`.
QueryCall(cls, collectionKey, options) ==
    /\ nTasks < MaxTasks
    /\ nTasks' = nTasks + 1
    /\ LET t == nTasks + 1
           me == [NewTask("query") EXCEPT !.ck = collectionKey,
                      !.sk = StorageKeyOf(cls), !.options = options]
       IN tasks' = [tasks EXCEPT ![t] = getAllBegin(me)]
    /\ Looks(GetAllKeys([ck |-> collectionKey, sk |-> StorageKeyOf(cls)]))
    /\ UNCHANGED <<initialized, config, entityRegistry, registry, dbInstance, disk, pendingWrites, writeTimeout, timers,
                   isWriting, runs, data, heap, ioQueue, nFail, ver, hist>>

\* query after `await getAll`.  Without a filter, sort orders the array
\* getAll returned in place (the cached array, when there is one); the
\* result is returned with totalCount and hasMore.
QueryFinish(t) ==
    /\ tasks[t].pc = "got"
    /\ tasks[t].op = "query"
    /\ LET o == tasks[t].options
           els == ArrayAt(heap, tasks[t].list)
           total == totalCount(els, o)
           inPlace == o.filter = "none" /\ o.sort # "none" /\ tasks[t].list # Null
           h == IF inPlace
                THEN [heap EXCEPT ![tasks[t].list] = Array(Sorted(els, o.sort))]
                ELSE heap
       IN /\ tasks' = [tasks EXCEPT ![t] =
                 Done([@ EXCEPT !.cnt = total],
                      IF hasMore(o, total) THEN "true" ELSE "false",
                      queryEntities(els, o))]
          /\ heap' = Collect(h, data, cache, tasks')
    /\ UNCHANGED <<initialized, config, entityRegistry, registry, dbInstance, disk, pendingWrites, writeTimeout, timers,
                   isWriting, runs, data, cache, cacheStats, ioQueue, nTasks, nFail, ver, hist>>

\* ------------------------------------------------------------- replaceAll
\* replaceAll up to `await initializeDatabase`, run by call `me` with the
\* array at address a as `objects`: the first attempt of its own
\* executeWithRetry.
replaceAllBegin(me, a) ==
    [me EXCEPT !.pc = initializeDatabase("ra_apply", "ra_load"), !.objs = a,
               !.list = Null, !.sub = 1]

\* The arrays replaceAll is called with.
ReplaceInputs ==
    {<<>>} \cup {<<e>> : e \in {x \in Entities : x.id = <<"2">> /\ x.timestamp = 2}}

\* A call of replaceAll(EntityClass, collectionKey, objects).
ReplaceAllCall(cls, collectionKey, objects) ==
    /\ nTasks < MaxTasks
    /\ nTasks' = nTasks + 1
    /\ LET t == nTasks + 1
           a == NewAddr(heap)
           me == [NewTask("replaceAll") EXCEPT !.ck = collectionKey,
                                               !.sk = StorageKeyOf(cls)]
       IN IF ~initialized
          THEN /\ tasks' = [tasks EXCEPT ![t] = Done(me, "void", <<>>)]
               /\ UNCHANGED heap
          ELSE /\ tasks' = [tasks EXCEPT ![t] = replaceAllBegin(me, a)]
               /\ heap' = [heap EXCEPT ![a] =
                              Array([i \in 1..Len(objects) |-> El(objects[i])])]
    /\ UNCHANGED <<initialized, config, entityRegistry, registry, dbInstance, disk, pendingWrites, writeTimeout, timers, isWriting, runs,
                   data, cache, cacheStats, ioQueue, nFail, ver, hist>>

\* A faulty assignment that writes a tree holding the one list only.
assignOnlyList(d, l, a) == [x \in Lists |-> IF x = l THEN a ELSE Null]

\* this.dbInstance.data[collectionKey][storageKey] = objects
assignList(d, l, a) == [d EXCEPT ![l] = a]

\* replaceAll after `await initializeDatabase`: the list of the tree becomes
\* `objects` (the array itself), and dbInstance.write() is issued, whether
\* or not another write is outstanding.
ReplaceApply(t) ==
    /\ tasks[t].pc = "ra_apply"
    /\ LET l == <<tasks[t].ck, tasks[t].sk>>
           d == assignList(data, l, tasks[t].objs)
           ts == [tasks EXCEPT ![t] = [@ EXCEPT !.pc = "ra_wait",
                                                !.mver = hist.clock + 1]]
           nv == [ver EXCEPT ![l] = hist.clock + 1]
       IN /\ data' = d
          /\ tasks' = ts
          /\ heap' = Collect(heap, d, cache, ts)
          /\ ver' = nv
          /\ ioQueue' = Append(ioQueue,
                 [kind |-> "task", batch |-> <<>>, t |-> t,
                  snap |-> Snapshot(d, heap, nv)])
    /\ hist' = [hist EXCEPT !.clock = @ + 1]
    /\ UNCHANGED <<initialized, config, entityRegistry, registry, dbInstance, disk, pendingWrites, writeTimeout, timers,
                   isWriting, runs, cache, cacheStats, nTasks, nFail>>

\* What the caller of replaceAll returns once replaceAll has returned.
ReplaceReturns(task) ==
    CASE task.op = "replaceAll" -> Done(task, "void", <<>>)
      [] task.op = "deleteById" -> Done(task, "true", <<>>)
      [] task.op = "storeUnique" -> Done(task, "updated", <<>>)
      [] OTHER -> Done(task, "purged", <<>>)

\* The catch of replaceAll's executeWithRetry: back off and write again, or
\* rethrow after MAX_RETRIES attempts, to the user or to the catch of the
\* executeWithRetry of the calling operation.
ReplaceCatch(task) ==
    IF task.sub < MAX_RETRIES
    THEN [task EXCEPT !.pc = "ra_backoff", !.delay = RETRY_DELAY_MS * task.sub]
    ELSE IF task.op = "replaceAll" THEN Done(task, "error", <<>>)
    ELSE executeWithRetryCatch(task)

\* dbInstance.write() of a replaceAll completes.  On success replaceAll
\* invalidates the cache entries of the list and returns, and so does the
\* operation that called it.  The file rejects at most `cap` writes in a
\* run.
TaskWriteEnds(ok, cap) ==
    /\ ioQueue # <<>>
    /\ Head(ioQueue).kind = "task"
    /\ MacroOK
    /\ IF ok THEN nFail' = nFail ELSE nFail < cap /\ nFail' = nFail + 1
    /\ LET t == Head(ioQueue).t
           ts == [tasks EXCEPT ![t] =
                    IF ok THEN ReplaceReturns(@) ELSE ReplaceCatch(@)]
           c == IF ok THEN ClearEach(cache, {t}) ELSE cache
       IN /\ tasks' = ts
          /\ cache' = c
          /\ heap' = Collect(heap, data, c, ts)
          /\ hist' = IF ok THEN [hist EXCEPT !.done = HistDone({t})] ELSE hist
    /\ disk' = IF ok THEN Head(ioQueue).snap ELSE disk
    /\ ioQueue' = Tail(ioQueue)
    /\ UNCHANGED <<cacheStats, initialized, config, entityRegistry, registry, dbInstance, pendingWrites, writeTimeout, timers, isWriting, runs,
                   data, nTasks, ver>>

TaskWriteDone(ok) == TaskWriteEnds(ok, MaxFail)

\* The backoff timer of replaceAll's executeWithRetry fires: the next
\* attempt runs replaceAll again up to `await initializeDatabase`.
ReplaceRetry(t) ==
    /\ tasks[t].pc = "ra_backoff"
    /\ MacroOK
    /\ tasks' = [tasks EXCEPT ![t] =
                    [@ EXCEPT !.pc = initializeDatabase("ra_apply", "ra_load"),
                              !.sub = @ + 1, !.delay = 0]]
    /\ UNCHANGED <<initialized, config, entityRegistry, registry, dbInstance, disk, pendingWrites, writeTimeout, timers, isWriting, runs,
                   data, heap, cache, cacheStats, ioQueue, nTasks, nFail, ver, hist>>

\* ------------------------------------------------------------- deleteById
\* deleteById(EntityClass, collectionKey, objectId), up to `await getAll`.
\* The call takes slot t of the task table ts.
deleteByIdBegin(ts, t, collectionKey, storageKey, objectId) ==
    LET me == [NewTask("deleteById") EXCEPT !.ck = collectionKey,
                   !.sk = storageKey, !.id = objectId]
    IN /\ tasks' = [ts EXCEPT ![t] =
             IF ~initialized THEN Done(me, "false", <<>>) ELSE getAllBegin(me)]
       /\ Looks(GetAllKeys(me))

\* A call of deleteById by a user.
DeleteByIdCall(cls, collectionKey, objectId) ==
    /\ nTasks < MaxTasks
    /\ nTasks' = nTasks + 1
    /\ deleteByIdBegin(tasks, nTasks + 1, collectionKey, StorageKeyOf(cls),
                       objectId)
    /\ UNCHANGED <<initialized, config, entityRegistry, registry, dbInstance, disk, pendingWrites, writeTimeout, timers, isWriting, runs,
                   data, heap, ioQueue, nFail, ver, hist>>

\* The step of a call that filters the list getAll returned: nothing to
\* remove ends the call; otherwise replaceAll starts with the new array.
FilterStep(t, kept, none) ==
    LET a == NewAddr(heap)
        els == ArrayAt(heap, tasks[t].list)
        ts == [tasks EXCEPT ![t] =
                 IF Len(kept) = Len(els) THEN Done(@, none, <<>>)
                 ELSE replaceAllBegin([@ EXCEPT !.cnt = Len(els) - Len(kept)], a)]
        h == IF Len(kept) = Len(els) THEN heap
             ELSE [heap EXCEPT ![a] = Array(kept)]
    IN /\ tasks' = ts
       /\ heap' = Collect(h, data, cache, ts)
       /\ UNCHANGED <<initialized, config, entityRegistry, registry, dbInstance, disk, pendingWrites, writeTimeout, timers, isWriting,
                      runs, data, cache, cacheStats, ioQueue, nTasks, nFail, ver, hist>>

\* A faulty filter that drops only the first entity with the id.
WithoutFirst(els, id) ==
    IF IndicesOf(els, id) = {} THEN els
    ELSE LET i == Min(IndicesOf(els, id))
         IN SubSeq(els, 1, i - 1) \o SubSeq(els, i + 1, Len(els))

\* allItems.filter(item => item.id !== objectId)
WithoutId(els, id) == SelectSeq(els, LAMBDA x : x.e.id # id)

\* deleteById after `await getAll`: drop every entity with the id.
DeleteByIdFilter(t) ==
    /\ tasks[t].pc = "got"
    /\ tasks[t].op = "deleteById"
    /\ FilterStep(t, WithoutId(ArrayAt(heap, tasks[t].list), tasks[t].id),
                  "false")

\* -------------------------------------------------------- purgeStaleItems
\* A call of purgeStaleItems(EntityClass, collectionKey, maxAgeHours), up to
\* `await getAll`; `now` is what the clock reads when the call gets to
\* `new Date()`.
PurgeCall(cls, collectionKey, maxAgeHours, now) ==
    /\ nTasks < MaxTasks
    /\ nTasks' = nTasks + 1
    /\ LET t == nTasks + 1
           me == [NewTask("purgeStaleItems") EXCEPT !.ck = collectionKey,
                      !.sk = StorageKeyOf(cls), !.maxAgeHours = maxAgeHours,
                      !.now = now]
       IN tasks' = [tasks EXCEPT ![t] =
             IF ~initialized THEN Done(me, "purged", <<>>) ELSE getAllBegin(me)]
    /\ Looks(GetAllKeys([ck |-> collectionKey, sk |-> StorageKeyOf(cls)]))
    /\ UNCHANGED <<initialized, config, entityRegistry, registry, dbInstance, disk, pendingWrites, writeTimeout, timers,
                   isWriting, runs, data, heap, ioQueue, nFail, ver, hist>>

\* allItems.filter(item => item.timestamp > cutoffTimestamp), where the
\* cutoff is the ISO string of now with maxAgeHours taken off by setHours.
FreshItems(els, now, maxAgeHours) ==
    LET cutoffTimestamp == toISOString(setHoursBack(now, maxAgeHours))
    IN SelectSeq(els, LAMBDA x :
                     StrGreater(toISOString(x.e.timestamp), cutoffTimestamp))

\* purgeStaleItems after `await getAll`: keep the items whose timestamp is
\* greater than the cutoff.
PurgeFilter(t) ==
    /\ tasks[t].pc = "got"
    /\ tasks[t].op = "purgeStaleItems"
    /\ FilterStep(t, FreshItems(ArrayAt(heap, tasks[t].list), tasks[t].now,
                                tasks[t].maxAgeHours),
                  "purged")

\* ------------------------------------------------------------ storeUnique
\* A call of storeUnique(object), up to `await getAll`.  A configuration
\* error is thrown inside the operation executeWithRetry runs.
StoreUniqueCall(e) ==
    /\ nTasks < MaxTasks
    /\ nTasks' = nTasks + 1
    /\ LET t == nTasks + 1
           new == [NewTask("storeUnique") EXCEPT !.ent = e, !.id = e.id]
           me == [new EXCEPT !.ck = KeysOfObject(e).collectionKey,
                             !.sk = KeysOfObject(e).storageKey]
       IN tasks' = [tasks EXCEPT ![t] =
             IF ~initialized THEN Done([new EXCEPT !.attempt = 0], "inserted", <<>>)
             ELSE IF ConfigError(e) THEN executeWithRetryCatch(new)
             ELSE getAllBegin(me)]
    /\ Looks(IF ConfigError(e) THEN <<>>
             ELSE GetAllKeys([ck |-> KeysOfObject(e).collectionKey,
                              sk |-> KeysOfObject(e).storageKey]))
    /\ UNCHANGED <<initialized, config, entityRegistry, registry, dbInstance, disk, pendingWrites, writeTimeout, timers,
                   isWriting, runs, data, heap, ioQueue, nFail, ver, hist>>

\* storeUnique after `await getAll`: an entity with the id is overwritten in
\* the array getAll returned and the array goes to replaceAll; otherwise
\* the object is enqueued as store does.
StoreUniqueFind(t) ==
    /\ tasks[t].pc = "got"
    /\ tasks[t].op = "storeUnique"
    /\ LET els == ArrayAt(heap, tasks[t].list)
           hits == IndicesOf(els, tasks[t].id)
       IN IF hits # {}
          THEN /\ heap' = [heap EXCEPT ![tasks[t].list] =
                     Array([els EXCEPT ![Min(hits)] = El(tasks[t].ent)])]
               /\ tasks' = [tasks EXCEPT ![t] =
                                replaceAllBegin(@, tasks[t].list)]
               /\ UNCHANGED <<pendingWrites, writeTimeout, timers, hist>>
          ELSE /\ tasks' = [tasks EXCEPT ![t] = [@ EXCEPT !.pc = "sd_wait",
                                                          !.list = Null]]
               /\ heap' = Collect(heap, data, cache, tasks')
               /\ Enqueue(tasks[t].ck, tasks[t].sk, tasks[t].ent, PromiseOf(t))
    /\ UNCHANGED <<initialized, config, entityRegistry, registry, dbInstance, disk, isWriting, runs, data, cache, cacheStats, ioQueue, nTasks,
                   nFail, ver>>

\* The backoff timer of the operation's executeWithRetry fires: the next
\* attempt runs the operation again from its start.
OpRetry(t) ==
    /\ tasks[t].pc = "backoff"
    /\ tasks[t].op \in {"storeUnique", "deleteById", "purgeStaleItems"}
    /\ MacroOK
    /\ LET e == tasks[t].ent
           new == [tasks[t] EXCEPT !.attempt = @ + 1, !.cnt = 0, !.delay = 0]
       IN tasks' = [tasks EXCEPT ![t] =
             IF new.op = "storeUnique" /\ ConfigError(e)
             THEN executeWithRetryCatch(new)
             ELSE IF new.op = "storeUnique"
             THEN getAllBegin([new EXCEPT !.ck = KeysOfObject(e).collectionKey,
                                          !.sk = KeysOfObject(e).storageKey])
             ELSE getAllBegin(new)]
    /\ Looks(IF tasks[t].op # "storeUnique" THEN GetAllKeys(tasks[t])
             ELSE IF ConfigError(tasks[t].ent) THEN <<>>
             ELSE GetAllKeys([ck |-> KeysOfObject(tasks[t].ent).collectionKey,
                              sk |-> KeysOfObject(tasks[t].ent).storageKey]))
    /\ UNCHANGED <<initialized, config, entityRegistry, registry, dbInstance, disk, pendingWrites, writeTimeout, timers,
                   isWriting, runs, data, heap, ioQueue, nTasks, nFail, ver, hist>>

\* --------------------------------------------------------- bulk operations
\* The BulkOperationResult after the call for the current item has settled
\* with `out`: a call that threw, and a deleteById that returned false, count
\* as failed and leave an entry in errors; any other counts as successful.
bulkAfter(b, out) ==
    LET item == b.items[b.idx]
        next == [b EXCEPT !.idx = @ + 1]
    IN CASE out = "error" ->
              [next EXCEPT !.failed = @ + 1,
                  !.errors = Append(@, [entity |-> item, error |-> "thrown"])]
         [] out = "false" /\ b.op = "bulkDelete" ->
              [next EXCEPT !.failed = @ + 1,
                  !.errors = Append(@, [entity |-> item,
                                        error |-> "Entity not found"])]
         [] OTHER -> [next EXCEPT !.successful = @ + 1]

\* A faulty loop that stops at the first failure.
bulkMoreUntilFailure(b) == b.idx <= Len(b.items) /\ b.failed = 0

\* The loop over the items goes on: an item is left.
bulkMore(b) == b.idx <= Len(b.items)

\* One turn of the loop of the bulk operation in slot b, whose record is
\* `me`: with no item left the result is returned; otherwise store (or
\* deleteById) is called for the item, in slot t, and awaited.
bulkIterate(b, me, t) ==
    IF ~bulkMore(me)
    THEN /\ tasks' = [tasks EXCEPT ![b] = Done(me, "result", <<>>)]
         /\ nTasks' = t - 1
         /\ UNCHANGED <<pendingWrites, writeTimeout, timers, hist, cache,
                        cacheStats>>
    ELSE /\ nTasks' = t
         /\ LET ts == [tasks EXCEPT ![b] =
                         [me EXCEPT !.pc = "bk_wait", !.child = t]]
            IN IF me.op = "bulkStore"
               THEN /\ storeBegin(ts, t, me.items[me.idx])
                    /\ UNCHANGED <<cache, cacheStats>>
               ELSE /\ deleteByIdBegin(ts, t, me.ck, me.sk, me.items[me.idx])
                    /\ UNCHANGED <<pendingWrites, writeTimeout, timers, hist>>

\* The task table has a slot for a bulk operation and one for each of its n
\* items, and no other bulk operation is under way to take them.
BulkSlots(n) ==
    /\ nTasks + 1 + n <= MaxTasks
    /\ \A t \in TaskIds : tasks[t].pc # "bk_wait"

\* A call of bulkStore(entities), up to the await of the first store.
BulkStoreCall(entities) ==
    /\ BulkSlots(Len(entities))
    /\ bulkIterate(nTasks + 1,
                   [NewTask("bulkStore") EXCEPT !.items = entities, !.idx = 1],
                   nTasks + 2)
    /\ UNCHANGED <<initialized, config, entityRegistry, registry, dbInstance, disk, isWriting, runs, data, heap,
                   ioQueue, nFail, ver>>

\* A call of bulkDelete(EntityClass, collectionKey, entityIds), up to the
\* await of the first deleteById.
BulkDeleteCall(cls, collectionKey, entityIds) ==
    /\ BulkSlots(Len(entityIds))
    /\ bulkIterate(nTasks + 1,
                   [NewTask("bulkDelete") EXCEPT !.items = entityIds, !.idx = 1,
                        !.ck = collectionKey, !.sk = StorageKeyOf(cls)],
                   nTasks + 2)
    /\ UNCHANGED <<initialized, config, entityRegistry, registry, dbInstance, disk, isWriting, runs, data, heap,
                   ioQueue, nFail, ver>>

\* The call a bulk operation awaits has settled: its outcome is counted and
\* the loop goes on with the next item.
BulkNext(b) ==
    /\ BulkReady(b)
    /\ bulkIterate(b, bulkAfter(tasks[b], tasks[tasks[b].child].out),
                   nTasks + 1)
    /\ UNCHANGED <<initialized, config, entityRegistry, registry, dbInstance, disk, isWriting, runs, data, heap,
                   ioQueue, nFail, ver>>

\* ------------------------------------------- the batcher's specification
\* store, flushPendingWrites, the timer and the durable writes.
NextBatch ==
    \/ Initialize(TRUE)
    \/ \E e \in BatchInputs : StoreCall(e)
    \/ TimerFire
    \/ \E r \in runs : LoadDone(0, r)
    \/ \E r \in runs : BatchApply(r)
    \/ \E ok \in BOOLEAN : BatchWriteDone(ok)
    \/ \E t \in TaskIds : StoreRetry(t)
    \/ FlushCall

SpecBatch == Init /\ [][NextBatch]_vars

\* The event loop delivers every pending timer and every I/O completion, and
\* runs every queued continuation.
FairBatch ==
    /\ WF_vars(TimerFire)
    /\ WF_vars(\E r \in runs : LoadDone(0, r))
    /\ WF_vars(\E r \in runs : BatchApply(r))
    /\ WF_vars(\E ok \in BOOLEAN : BatchWriteDone(ok))
    /\ WF_vars(\E t \in TaskIds : StoreRetry(t))

FairSpecBatch == SpecBatch /\ FairBatch

\* The batcher under a file that rejects up to MaxFailRetry writes.
NextRetry ==
    \/ Initialize(TRUE)
    \/ \E e \in BatchInputs : StoreCall(e)
    \/ TimerFire
    \/ \E r \in runs : LoadDone(0, r)
    \/ \E r \in runs : BatchApply(r)
    \/ \E ok \in BOOLEAN : BatchWriteEnds(ok, MaxFailRetry)
    \/ \E t \in TaskIds : StoreRetry(t)

SpecRetry == Init /\ [][NextRetry]_vars

\* What store and storeUnique are called with where configuration errors
\* are looked at: an object of a registered class and one of a class that is
\* not registered.
ConfigInputs ==
    [cls : Registered \cup Unregistered, guildId : {<<"g">>}, id : {<<"1">>},
     timestamp : {1}]

\* store and storeUnique under every configuration: initialize is called
\* once, with or without a registry, and the file accepts every write.
NextConfig ==
    \/ \E withRegistry \in BOOLEAN : ~initialized /\ Initialize(withRegistry)
    \/ \E e \in ConfigInputs : StoreCall(e)
    \/ \E e \in ConfigInputs : StoreUniqueCall(e)
    \/ TimerFire
    \/ \E r \in runs : LoadDone(0, r)
    \/ \E r \in runs : BatchApply(r)
    \/ BatchWriteDone(TRUE)
    \/ TaskWriteDone(TRUE)
    \/ \E t \in TaskIds :
          \/ LoadDone(t, 0)
          \/ GetAllRead(t)
          \/ ReplaceApply(t)
          \/ StoreUniqueFind(t)
          \/ StoreRetry(t)
          \/ OpRetry(t)

SpecConfig == Init /\ [][NextConfig]_vars

\* Every call issued so far has returned: a caller that awaits each call
\* before it makes the next issues its calls in such states only.
Awaited == \A t \in TaskIds : tasks[t].pc \in {"idle", "done"}

\* The objects storeUnique is called with, one call after the other: two
\* ids, two payloads.
UniqueInputs == {e \in Entities : e.guildId = <<"g">>}

\* storeUnique calls that do not overlap, on a file that is empty at first.  The
\* getAll of a call has loaded the file before its write is queued.
NextUnique ==
    \/ Initialize(TRUE)
    \/ \E e \in UniqueInputs : Awaited /\ StoreUniqueCall(e)
    \/ TimerFire
    \/ \E r \in runs : BatchApply(r)
    \/ \E ok \in BOOLEAN : BatchWriteDone(ok)
    \/ \E ok \in BOOLEAN : TaskWriteDone(ok)
    \/ \E t \in TaskIds :
          \/ LoadDone(t, 0)
          \/ GetAllRead(t)
          \/ ReplaceApply(t)
          \/ StoreUniqueFind(t)
          \/ ReplaceRetry(t)
          \/ OpRetry(t)

SpecUnique == Init /\ [][NextUnique]_vars

\* The objects concurrent storeUnique calls are made with: one id, two
\* payloads.
RaceInputs == {e \in UniqueInputs : e.id = <<"1">>}

\* storeUnique calls that may overlap.  The getAll of a call has loaded
\* the file before its write is queued.
NextRace ==
    \/ Initialize(TRUE)
    \/ \E e \in RaceInputs : StoreUniqueCall(e)
    \/ TimerFire
    \/ \E r \in runs : BatchApply(r)
    \/ \E ok \in BOOLEAN : BatchWriteDone(ok)
    \/ \E ok \in BOOLEAN : TaskWriteDone(ok)
    \/ \E t \in TaskIds :
          \/ LoadDone(t, 0)
          \/ GetAllRead(t)
          \/ ReplaceApply(t)
          \/ StoreUniqueFind(t)
          \/ ReplaceRetry(t)
          \/ OpRetry(t)

SpecRace == Init /\ [][NextRace]_vars

\* The lists a collection is seeded with before records are removed: two
\* records that share an id, with another one between them.
SeedInputs ==
    {<<[cls |-> "A", guildId |-> <<"g">>, id |-> <<"1">>, timestamp |-> 1],
       [cls |-> "A", guildId |-> <<"g">>, id |-> <<"2">>, timestamp |-> 1],
       [cls |-> "A", guildId |-> <<"g">>, id |-> <<"1">>, timestamp |-> 2]>>}

\* replaceAll and deleteById calls that do not overlap.
NextDelete ==
    \/ Initialize(TRUE)
    \/ \E c \in Classes, o \in SeedInputs : Awaited /\ ReplaceAllCall(c, <<"g">>, o)
    \/ \E c \in Classes, i \in Ids : Awaited /\ DeleteByIdCall(c, <<"g">>, i)
    \/ \E ok \in BOOLEAN : TaskWriteDone(ok)
    \/ \E t \in TaskIds :
          \/ LoadDone(t, 0)
          \/ GetAllRead(t)
          \/ ReplaceApply(t)
          \/ DeleteByIdFilter(t)
          \/ ReplaceRetry(t)

SpecDelete == Init /\ [][NextDelete]_vars

\* What purgeStaleItems is called with, as <<maxAgeHours, now>>: a window
\* that lies in standard time, and one that spans the change to summer time.
PurgeInputs == {<<1, 2>>, <<3, 4>>}

\* replaceAll and purgeStaleItems calls that do not overlap.
NextPurge ==
    \/ Initialize(TRUE)
    \/ \E c \in Classes, o \in SeedInputs : Awaited /\ ReplaceAllCall(c, <<"g">>, o)
    \/ \E c \in Classes, i \in PurgeInputs :
          Awaited /\ PurgeCall(c, <<"g">>, i[1], i[2])
    \/ \E ok \in BOOLEAN : TaskWriteDone(ok)
    \/ \E t \in TaskIds :
          \/ LoadDone(t, 0)
          \/ GetAllRead(t)
          \/ ReplaceApply(t)
          \/ PurgeFilter(t)
          \/ ReplaceRetry(t)

SpecPurge == Init /\ [][NextPurge]_vars

\* The options query is called with.
QueryInputs ==
    [filter : {"none", "idIsOne"}, sort : {"none", "newestFirst"},
     limit : {Undefined, 0, 1, 2}, offset : {Undefined, 1}]

\* replaceAll and query calls; a query is made when the calls before it
\* have returned.
NextQuery ==
    \/ Initialize(TRUE)
    \/ \E c \in Classes, o \in SeedInputs : ReplaceAllCall(c, <<"g">>, o)
    \/ \E c \in Classes, o \in QueryInputs :
          Awaited /\ QueryCall(c, <<"g">>, o)
    \/ \E ok \in BOOLEAN : TaskWriteDone(ok)
    \/ \E t \in TaskIds :
          \/ LoadDone(t, 0)
          \/ GetAllRead(t)
          \/ ReplaceApply(t)
          \/ QueryFinish(t)
          \/ ReplaceRetry(t)

SpecQuery == Init /\ [][NextQuery]_vars

\* The arrays replaceAll is called with where two lists are looked at: none,
\* one and three records.
ReplaceListInputs == ReplaceInputs \cup SeedInputs

\* replaceAll calls on the lists of two collections, which may overlap.
NextReplace ==
    \/ Initialize(TRUE)
    \/ \E c \in Classes, k \in CollectionKeys, o \in ReplaceListInputs :
          ReplaceAllCall(c, k, o)
    \/ \E ok \in BOOLEAN : TaskWriteDone(ok)
    \/ \E t \in TaskIds :
          \/ LoadDone(t, 0)
          \/ ReplaceApply(t)
          \/ ReplaceRetry(t)

SpecReplace == Init /\ [][NextReplace]_vars

\* A backing file an earlier run has left: one record, with id 1, in the
\* list of collection g.
SeededFile ==
    [l \in Lists |->
        IF l = <<<<"g">>, StorageKeyOf("A")>>
        THEN [present |-> TRUE, ver |-> 0,
              els |-> <<El([cls |-> "A", guildId |-> <<"g">>, id |-> <<"1">>,
                            timestamp |-> 1])>>]
        ELSE Absent]

\* The arrays of up to n items of S.
UpTo(S, n) == UNION {[1..k -> S] : k \in 0..n}

\* One bulk operation at a time, of up to two items: bulkStore of objects
\* of a registered and of an unregistered class, bulkDelete of ids the list
\* holds and does not hold, under a file that rejects up to MaxFailBulk
\* writes.
NextBulk ==
    \/ Initialize(TRUE)
    \/ \E es \in UpTo(ConfigInputs, 2) : BulkStoreCall(es)
    \/ \E c \in Classes, ids \in UpTo(Ids, 2) : BulkDeleteCall(c, <<"g">>, ids)
    \/ TimerFire
    \/ \E r \in runs : LoadDone(0, r)
    \/ \E r \in runs : BatchApply(r)
    \/ \E ok \in BOOLEAN : BatchWriteEnds(ok, MaxFailBulk)
    \/ \E ok \in BOOLEAN : TaskWriteEnds(ok, MaxFailBulk)
    \/ \E t \in TaskIds :
          \/ LoadDone(t, 0)
          \/ GetAllRead(t)
          \/ ReplaceApply(t)
          \/ DeleteByIdFilter(t)
          \/ StoreRetry(t)
          \/ ReplaceRetry(t)
          \/ OpRetry(t)
          \/ BulkNext(t)

SpecBulk == InitOver(SeededFile, StartUpRegistry) /\ [][NextBulk]_vars

\* register calls for every class and extractor, and store calls for an
\* object of A and of its subclass B, on a registry that is empty at first;
\* the file accepts every write.
NextRegistry ==
    \/ Initialize(TRUE)
    \/ \E c \in Registered \cup Unregistered \cup Keyless, x \in Extractors :
          Register(c, x)
    \/ \E e \in ConfigInputs : StoreCall(e)
    \/ TimerFire
    \/ \E r \in runs : LoadDone(0, r)
    \/ \E r \in runs : BatchApply(r)
    \/ BatchWriteDone(TRUE)
    \/ \E t \in TaskIds : StoreRetry(t)

SpecRegistry == InitOver(NoFile, {}) /\ [][NextRegistry]_vars

\* A backing file an earlier run has left: three records in the list of
\* collection g, in the order in which they were stored.
OrderFile ==
    [l \in Lists |->
        IF l = <<<<"g">>, StorageKeyOf("A")>>
        THEN [present |-> TRUE, ver |-> 0,
              els |-> <<El([cls |-> "A", guildId |-> <<"g">>, id |-> <<"2">>,
                            timestamp |-> 1]),
                        El([cls |-> "A", guildId |-> <<"g">>, id |-> <<"2">>,
                            timestamp |-> 2]),
                        El([cls |-> "A", guildId |-> <<"g">>, id |-> <<"1">>,
                            timestamp |-> 1])>>]
        ELSE Absent]

\* The objects store and storeUnique are called with, and the options of
\* query, where the order of a list is looked at.
OrderInputs == {e \in Entities : e.guildId = <<"g">> /\ e.id = <<"1">>}
OrderQueries ==
    [filter : {"none"}, sort : {"none", "newestFirst"}, limit : {Undefined},
     offset : {Undefined}]

\* store, query and storeUnique calls on a list of three records; a call is
\* made when the calls before it have returned.
NextOrder ==
    \/ Initialize(TRUE)
    \/ \E e \in OrderInputs : Awaited /\ StoreCall(e)
    \/ \E e \in OrderInputs : Awaited /\ StoreUniqueCall(e)
    \/ \E c \in Classes, o \in OrderQueries :
          Awaited /\ QueryCall(c, <<"g">>, o)
    \/ TimerFire
    \/ \E r \in runs : LoadDone(0, r)
    \/ \E r \in runs : BatchApply(r)
    \/ \E ok \in BOOLEAN : BatchWriteDone(ok)
    \/ \E ok \in BOOLEAN : TaskWriteDone(ok)
    \/ \E t \in TaskIds :
          \/ LoadDone(t, 0)
          \/ GetAllRead(t)
          \/ QueryFinish(t)
          \/ ReplaceApply(t)
          \/ StoreUniqueFind(t)
          \/ StoreRetry(t)
          \/ ReplaceRetry(t)

SpecOrder == InitOver(OrderFile, StartUpRegistry) /\ [][NextOrder]_vars

\* The batcher with a clock: the debounce timer fires BATCH_DELAY_MS after
\* it was set.
NextTimed ==
    \/ Initialize(TRUE)
    \/ \E e \in BatchInputs : StoreCall(e)
    \/ Tick
    \/ TimerExpires
    \/ \E r \in runs : LoadDone(0, r)
    \/ \E r \in runs : BatchApply(r)
    \/ \E ok \in BOOLEAN : BatchWriteDone(ok)
    \/ \E t \in TaskIds : StoreRetry(t)
    \/ FlushCall

SpecTimed == Init /\ [][NextTimed]_vars

\* The batcher with readers.
NextRead ==
    \/ NextBatch
    \/ \E c \in Classes, k \in CollectionKeys : GetAllCall(c, k)
    \/ \E t \in TaskIds : LoadDone(t, 0)
    \/ \E t \in TaskIds : GetAllRead(t)

SpecRead == Init /\ [][NextRead]_vars

\* A backing file in which the list of collection g is present and empty,
\* as a replaceAll with [] or the deleteById of its last record leaves it.
EmptiedFile ==
    [l \in Lists |->
        IF l = <<<<"g">>, StorageKeyOf("A")>>
        THEN [present |-> TRUE, ver |-> 0, els |-> <<>>]
        ELSE Absent]

\* The backing files getAll is looked at with.
CacheFiles == {NoFile, SeededFile, EmptiedFile}

\* getAll calls, one after the other, and nothing that mutates a list.
NextCache ==
    \/ Initialize(TRUE)
    \/ \E c \in Classes, k \in CollectionKeys : Awaited /\ GetAllCall(c, k)
    \/ \E t \in TaskIds : LoadDone(t, 0)
    \/ \E t \in TaskIds : GetAllRead(t)

SpecCache ==
    /\ \E file \in CacheFiles : InitOver(file, StartUpRegistry)
    /\ [][NextCache]_vars

\* The callers let go of the results of the calls that have returned.
Forget ==
    /\ nTasks > 0
    /\ Awaited
    /\ tasks' = [t \in TaskIds |-> IdleTask]
    /\ nTasks' = 0
    /\ heap' = Collect(heap, data, cache, tasks')
    /\ UNCHANGED <<initialized, config, entityRegistry, registry, dbInstance, disk,
                   pendingWrites, writeTimeout, timers, isWriting, runs, data,
                   cache, cacheStats, ioQueue, nFail, ver, hist>>

\* A backing file that holds both lists: two entities in g, one in g:2.
FullFile ==
    [l \in Lists |->
        [present |-> TRUE, ver |-> 0,
         els |-> IF l[1] = <<"g">>
                 THEN <<El([cls |-> "A", guildId |-> <<"g">>, id |-> <<"1">>,
                            timestamp |-> 1]),
                        El([cls |-> "A", guildId |-> <<"g">>, id |-> <<"2">>,
                            timestamp |-> 2])>>
                 ELSE <<El([cls |-> "A", guildId |-> l[1], id |-> <<"1">>,
                            timestamp |-> 1])>>]]

\* The cache settings initialize is called with where expiry is looked at:
\* caching on and off, a TTL of one step of the clock, the default capacity.
CacheConfigs ==
    [enableCaching : BOOLEAN, cacheTTL : {TickMs},
     maxCacheSize : {DefaultMaxCacheSize}]

\* The cache has not been looked up MaxLookups times yet.
LookupsLeft == cacheStats.hits + cacheStats.misses < MaxLookups

\* The cache under getAll and getById calls, one after the other, with time
\* passing between them; initialize is called once.
NextCacheLayer ==
    \/ \E settings \in CacheConfigs :
          ~initialized /\ InitializeWith(TRUE, settings)
    \/ \E c \in Classes, k \in CollectionKeys :
          nTasks = 0 /\ LookupsLeft /\ GetAllCall(c, k)
    \/ \E c \in Classes, k \in CollectionKeys, i \in Ids :
          nTasks = 0 /\ LookupsLeft /\ GetByIdCall(c, k, i)
    \/ \E t \in TaskIds : LoadDone(t, 0)
    \/ \E t \in TaskIds : GetAllRead(t)
    \/ \E t \in TaskIds : GetByIdFind(t)
    \/ nTasks = 0 /\ Tick
    \/ Forget

SpecCacheLayer == InitOver(FullFile, StartUpRegistry) /\ [][NextCacheLayer]_vars

\* The cache settings initialize is called with where eviction is looked
\* at: caching on, the default TTL, a capacity of one entry and of five.
EvictConfigs ==
    [enableCaching : {TRUE}, cacheTTL : {DefaultCacheTTL}, maxCacheSize : {1, 5}]

FillLookupsLeft == cacheStats.hits + cacheStats.misses < MaxFillLookups

\* Every entry of the cache has just been set or returned.
AllFresh == \A k \in CachedKeys(cache) : cache[k].idle = 0

\* The cache filled up by getById calls, one after the other, also for an id
\* that no entity has; time passes between two calls when every entry is
\* fresh.
NextEvict ==
    \/ \E settings \in EvictConfigs :
          ~initialized /\ InitializeWith(TRUE, settings)
    \/ \E c \in Classes, k \in CollectionKeys, i \in CacheIds :
          nTasks = 0 /\ FillLookupsLeft /\ GetByIdCall(c, k, i)
    \/ \E t \in TaskIds : LoadDone(t, 0)
    \/ \E t \in TaskIds : GetAllRead(t)
    \/ \E t \in TaskIds : GetByIdFind(t)
    \/ nTasks = 0 /\ AllFresh /\ Tick
    \/ Forget

SpecEvict == InitOver(FullFile, StartUpRegistry) /\ [][NextEvict]_vars

\* The record that is stored while another record of the list is deleted.
OverlapInputs ==
    {e \in Entities : e.guildId = <<"g">> /\ e.id = <<"2">> /\ e.timestamp = 1}

\* A getAll, then a store of a record with id 2 and a deleteById of id 1 on
\* the same list, which may overlap; no write fails.
NextOverlap ==
    \/ Initialize(TRUE)
    \/ \E c \in Classes : Awaited /\ nTasks = 0 /\ GetAllCall(c, <<"g">>)
    \/ \E e \in OverlapInputs :
          (\A t \in TaskIds : tasks[t].op # "store") /\ StoreCall(e)
    \/ \E c \in Classes :
          /\ \A t \in TaskIds : tasks[t].op # "deleteById"
          /\ DeleteByIdCall(c, <<"g">>, <<"1">>)
    \/ TimerFire
    \/ \E r \in runs : LoadDone(0, r)
    \/ \E r \in runs : BatchApply(r)
    \/ BatchWriteDone(TRUE)
    \/ TaskWriteDone(TRUE)
    \/ \E t \in TaskIds :
          \/ LoadDone(t, 0)
          \/ GetAllRead(t)
          \/ ReplaceApply(t)
          \/ DeleteByIdFilter(t)

SpecOverlap == InitOver(SeededFile, StartUpRegistry) /\ [][NextOverlap]_vars

\* getAll and query calls on a list of three records, one after the other,
\* and nothing that mutates a list.
NextFrame ==
    \/ Initialize(TRUE)
    \/ \E c \in Classes : Awaited /\ GetAllCall(c, <<"g">>)
    \/ \E c \in Classes, o \in OrderQueries :
          Awaited /\ QueryCall(c, <<"g">>, o)
    \/ \E t \in TaskIds :
          \/ LoadDone(t, 0)
          \/ GetAllRead(t)
          \/ QueryFinish(t)

SpecFrame == InitOver(OrderFile, StartUpRegistry) /\ [][NextFrame]_vars

\* The object store and storeUnique are called with around initialize.
UninitInputs == {e \in BatchInputs : e.guildId = <<"g">>}

\* store, storeUnique, replaceAll and getAll calls, one after the other,
\* before and after the one call of initialize; no write fails.
NextUninit ==
    \/ ~initialized /\ Initialize(TRUE)
    \/ \E e \in UninitInputs : Awaited /\ StoreCall(e)
    \/ \E e \in UninitInputs : Awaited /\ StoreUniqueCall(e)
    \/ \E c \in Classes, o \in ReplaceInputs :
          Awaited /\ ReplaceAllCall(c, <<"g">>, o)
    \/ \E c \in Classes : Awaited /\ GetAllCall(c, <<"g">>)
    \/ TimerFire
    \/ \E r \in runs : LoadDone(0, r)
    \/ \E r \in runs : BatchApply(r)
    \/ BatchWriteDone(TRUE)
    \/ TaskWriteDone(TRUE)
    \/ \E t \in TaskIds :
          \/ LoadDone(t, 0)
          \/ GetAllRead(t)
          \/ ReplaceApply(t)
          \/ StoreUniqueFind(t)

SpecUninit == InitOver(SeededFile, StartUpRegistry) /\ [][NextUninit]_vars

\* ---------------------------------------------- the whole repository
\* What the calls of the whole repository are made with.
StoreInputs ==
    {e \in Entities : e.guildId = <<"g">> /\ e.id = <<"1">> /\ e.timestamp = 1}

Next ==
    \/ Initialize(TRUE)
    \/ \E e \in StoreInputs : StoreCall(e)
    \/ \E e \in StoreInputs : StoreUniqueCall(e)
    \/ \E c \in Classes, o \in ReplaceInputs : ReplaceAllCall(c, <<"g">>, o)
    \/ \E c \in Classes : DeleteByIdCall(c, <<"g">>, <<"1">>)
    \/ \E c \in Classes : PurgeCall(c, <<"g">>, 1, 2)
    \/ \E c \in Classes : GetAllCall(c, <<"g">>)
    \/ \E c \in Classes : GetByIdCall(c, <<"g">>, <<"1">>)
    \/ FlushCall
    \/ TimerFire
    \/ \E r \in runs : LoadDone(0, r)
    \/ \E r \in runs : BatchApply(r)
    \/ \E ok \in BOOLEAN : BatchWriteDone(ok)
    \/ \E ok \in BOOLEAN : TaskWriteDone(ok)
    \/ \E t \in TaskIds :
          \/ LoadDone(t, 0)
          \/ GetAllRead(t)
          \/ GetByIdFind(t)
          \/ ReplaceApply(t)
          \/ DeleteByIdFilter(t)
          \/ PurgeFilter(t)
          \/ StoreUniqueFind(t)
          \/ StoreRetry(t)
          \/ ReplaceRetry(t)
          \/ OpRetry(t)

Spec == Init /\ [][Next]_vars

\* ================================================================ claims
Quiescent == pendingWrites = <<>> /\ runs = {}

RECURSIVE LogFor(_, _)
\* The elements the enqueues of a log append to list l, in enqueue order.
LogFor(log, l) ==
    IF log = <<>> THEN <<>>
    ELSE LET w == log[Len(log)]
             rest == LogFor(SubSeq(log, 1, Len(log) - 1), l)
         IN IF ListOfWrite(w) = l
            THEN Append(rest, [e |-> w.data, w |-> w.promise])
            ELSE rest

\* What list l holds when the enqueues of the current window are applied.
WindowExpected(l) == hist.base[l] \o LogFor(hist.log, l)

\* Every enqueue of the current window came before its first flush began.
IssuedTogether == hist.log # <<>> /\ hist.first = Len(hist.log)

Ceil(n, c) == (n + c - 1) \div c

\* C1: N <= MAX_BATCH_SIZE stores enqueued in one debounce window (all of
\* them before the flush begins, none while it is in flight): once the queue
\* is drained and the flush is over, exactly one durable write was issued and
\* every list holds what it held before followed by the window's records for
\* it, in enqueue order.
C1_OneWindowOneWrite ==
    (Quiescent /\ IssuedTogether /\ Len(hist.log) <= MAX_BATCH_SIZE)
        => /\ hist.writes = 1
           /\ \A l \in Lists : ListOf(data, heap, l) = WindowExpected(l)

C1_Witness ==
    /\ Quiescent /\ IssuedTogether /\ Len(hist.log) = 2
    /\ ListOfWrite(hist.log[1]) = ListOfWrite(hist.log[2])
    /\ hist.writes = 1
    /\ Len(ListOf(data, heap, ListOfWrite(hist.log[1]))) >= 2

\* C2: N > MAX_BATCH_SIZE stores enqueued together: once the queue is
\* drained, exactly ceil(N / MAX_BATCH_SIZE) durable writes were issued and
\* every record was appended to its list exactly once, in enqueue order.
C2_SplitIntoBatches ==
    (Quiescent /\ IssuedTogether /\ Len(hist.log) > MAX_BATCH_SIZE)
        => /\ hist.writes = Ceil(Len(hist.log), MAX_BATCH_SIZE)
           /\ \A l \in Lists : ListOf(data, heap, l) = WindowExpected(l)

C2_Witness ==
    /\ Quiescent /\ IssuedTogether /\ Len(hist.log) > MAX_BATCH_SIZE
    /\ hist.writes >= 2

\* C5: at most one performBatchWrite is past its guard at any time, the
\* guard is set exactly while one is, and no step taken while it is set
\* removes anything from the queue.
C5_OneFlushInFlight ==
    [][/\ Cardinality(runs') <= 1
       /\ (runs # {}) <=> isWriting
       /\ isWriting => IsPrefix(pendingWrites, pendingWrites')]_vars

C5_Witness ==
    \E t \in TaskIds :
        /\ tasks[t].op = "flush" /\ tasks[t].pc = "done" /\ tasks[t].busy
        /\ tasks[t].queued # {}
        /\ isWriting /\ pendingWrites # <<>>

\* C7: a store's promise is resolved only when the durable write of the
\* batch that holds its PendingWrite has completed successfully.
C7_ResolvedOnlyAfterWrite ==
    \A t \in TaskIds :
        (tasks[t].op = "store" /\ tasks[t].pc = "done" /\ tasks[t].out = "void"
           /\ tasks[t].attempt >= 1)
        => PromiseOf(t) \in hist.durable

C7_Witness ==
    \E t \in TaskIds :
        /\ tasks[t].op = "store" /\ tasks[t].pc = "done"
        /\ tasks[t].out = "void" /\ tasks[t].attempt = 2

AllPromises == TaskIds \X (1..MAX_RETRIES)

\* C8: every enqueued write's promise is eventually settled.
C8_EveryWriteSettles ==
    \A p \in AllPromises :
        (p \in Promises(pendingWrites)) ~> (p \in hist.settled)

C8_Witness ==
    /\ \E p \in hist.settled : p \in hist.durable
    /\ \E p \in hist.settled : p \notin hist.durable

\* The cache keys under which data of list l is kept.
KeysOf(l) == {ListKey(l)} \cup {getCacheKey(l[2], l[1], i) : i \in Ids}

\* C3 (as claimed): once a mutating operation on a list has completed, no
\* cache entry of the list holds data read before that mutation, and a
\* getAll or getById called after the completion is served the list as it
\* is after the mutation (ver stamps the last mutation a list holds).
C3_ReadsAfterMutationAreFresh ==
    /\ \A l \in Lists : \A k \in KeysOf(l) :
           cache[k] # NoEntry => cache[k].ver >= hist.done[l]
    /\ \A t \in TaskIds :
           (tasks[t].op \in {"getAll", "getById"} /\ tasks[t].pc = "done")
               => tasks[t].lver >= tasks[t].seen

\* C4 (as claimed): at most one dbInstance.write() is outstanding.
C4_SingleWriter == Len(ioQueue) <= 1

\* The PendingWrites whose records an array holds.
Tags(els) == {els[i].w : i \in 1..Len(els)}

\* The PendingWrites of batch B that are for list l.
MembersFor(B, l) == {x[1] : x \in {y \in B : y[2] = l}}

\* C6: the list a getAll returns holds, of every batch that was drained,
\* either all the records the batch has for that list or none of them.
C6_BatchSeenWhole ==
    \A t \in TaskIds :
        (tasks[t].op = "getAll" /\ tasks[t].pc = "done") =>
            \A B \in hist.batches :
                LET mine == MembersFor(B, <<tasks[t].ck, tasks[t].sk>>)
                IN mine \cap Tags(tasks[t].res) = {}
                   \/ mine \subseteq Tags(tasks[t].res)

C6_Witness ==
    \E t \in TaskIds, B \in hist.batches :
        /\ tasks[t].op = "getAll" /\ tasks[t].pc = "done"
        /\ Cardinality(MembersFor(B, <<tasks[t].ck, tasks[t].sk>>)) >= 2
        /\ MembersFor(B, <<tasks[t].ck, tasks[t].sk>>)
               \subseteq Tags(tasks[t].res)
        /\ B \cap (hist.settled \X Lists) = {}

\* The step in which flushPendingWrites call t settles.
FlushSettles(t) ==
    tasks[t].pc # "done" /\ tasks'[t].pc = "done" /\ tasks'[t].op = "flush"

\* C9 (as claimed): when flushPendingWrites settles, the timer is cancelled
\* and every write that was queued at the call is out of the queue and
\* durably written.
C9_FlushDrainsAll ==
    [][\A t \in TaskIds : FlushSettles(t) =>
          /\ ~writeTimeout'
          /\ tasks'[t].queued \cap Promises(pendingWrites') = {}
          /\ tasks'[t].queued \subseteq hist'.durable]_vars

\* C10: flushPendingWrites called with an empty queue returns at once,
\* issues no durable write and leaves queue, timer, guard and tree as they
\* were.
C10_FlushOnEmptyQueue ==
    [][(nTasks' = nTasks + 1 /\ tasks'[nTasks'].op = "flush"
          /\ pendingWrites = <<>>)
       => /\ tasks'[nTasks'].pc = "done"
          /\ UNCHANGED <<pendingWrites, writeTimeout, timers, isWriting, runs, data,
                         heap, ioQueue>>]_vars

C10_Witness ==
    \E t \in TaskIds :
        /\ tasks[t].op = "flush" /\ tasks[t].pc = "done"
        /\ tasks[t].queued = {} /\ initialized /\ isWriting

\* The step in which the durable write of a batch fails.
BatchWriteFails ==
    ioQueue # <<>> /\ Head(ioQueue).kind = "batch" /\ nFail' = nFail + 1

\* C11: when the durable write of a batch fails, every promise of the batch
\* is rejected and none is resolved, whatever list its write is for: each
\* call that waits on one is in executeWithRetry's catch (backing off, or
\* failed for good), and none has returned normally.
C11_FailedBatchRejectsAll ==
    [][BatchWriteFails =>
          LET B == Promises(Head(ioQueue).batch)
          IN /\ B \subseteq hist'.settled
             /\ B \cap hist'.durable = {}
             /\ \A t \in TaskIds : PromiseOf(t) \in B =>
                    \/ tasks'[t].pc = "backoff"
                    \/ tasks'[t].pc = "done" /\ tasks'[t].out = "error"]_vars

C11_Witness ==
    \E B \in hist.batches : \E x, y \in B :
        /\ x[2] # y[2]
        /\ {x[1], y[1]} \subseteq hist.settled \ hist.durable
        /\ tasks[x[1][1]].pc = "backoff" /\ tasks[y[1][1]].pc = "backoff"

\* The step in which the durable write of the batch that holds the write of
\* call t's current attempt succeeds.
WriteOfSucceeds(t) ==
    /\ ioQueue # <<>> /\ Head(ioQueue).kind = "batch"
    /\ PromiseOf(t) \in Promises(Head(ioQueue).batch)
    /\ nFail' = nFail /\ ioQueue' = Tail(ioQueue)

\* C12: a store call makes at most MAX_RETRIES attempts, each with one
\* durable write on its behalf.  After a failed attempt that is not the last
\* it waits attempt * RETRY_DELAY_MS before the next; it is rejected only
\* when its third write has failed; and it returns as soon as the write of
\* one attempt succeeds.
C12_StoreRetriesThreeTimes ==
    [][\A t \in TaskIds : tasks[t].op = "store" =>
          /\ tasks'[t].attempt <= MAX_RETRIES
          /\ (tasks[t].pc = "sd_wait" /\ tasks'[t].pc = "backoff") =>
                 /\ BatchWriteFails
                 /\ tasks[t].attempt < MAX_RETRIES
                 /\ tasks'[t].delay = tasks[t].attempt * RETRY_DELAY_MS
          /\ (tasks[t].pc # "done" /\ tasks'[t].pc = "done"
                /\ tasks'[t].out = "error") =>
                 /\ BatchWriteFails
                 /\ tasks[t].attempt = MAX_RETRIES
                 /\ \A k \in 1..MAX_RETRIES :
                        <<t, k>> \in hist'.settled \ hist'.durable
          /\ WriteOfSucceeds(t) =>
                 tasks'[t].pc = "done" /\ tasks'[t].out = "void"]_vars

C12_Witness ==
    \E t, u \in TaskIds :
        /\ tasks[t].op = "store" /\ tasks[t].pc = "done"
        /\ tasks[t].out = "error" /\ tasks[t].attempt = MAX_RETRIES
        /\ tasks[u].op = "store" /\ tasks[u].pc = "done"
        /\ tasks[u].out = "void" /\ tasks[u].attempt = 2

\* C13 (as claimed): a store or storeUnique call that hits a configuration
\* error (no registry, or no registration for the class) fails at once: it
\* is rejected in the step of the call, on its first attempt, with no
\* backoff wait, and nothing is enqueued.
C13_ConfigErrorFailsAtOnce ==
    [][(/\ nTasks' = nTasks + 1
        /\ initialized
        /\ tasks'[nTasks'].op \in {"store", "storeUnique"}
        /\ ConfigError(tasks'[nTasks'].ent))
       => /\ tasks'[nTasks'].pc = "done"
          /\ tasks'[nTasks'].out = "error"
          /\ tasks'[nTasks'].attempt = 1
          /\ pendingWrites' = pendingWrites]_vars

\* The objects of a list, without the history tags.
Objects(els) == [i \in 1..Len(els) |-> els[i].e]

\* The storeUnique calls made with a configuration, in call order.
UniqueCalls ==
    {t \in 1..nTasks : tasks[t].op = "storeUnique" /\ tasks[t].attempt >= 1}

\* C14 (as claimed): storeUnique calls that do not overlap, on a collection
\* that is empty at first.  When all have returned, a call whose id no
\* earlier call had reported inserted, every later call with that id reported
\* updated, and the list holds exactly one record with each id: the object
\* of the latest call with that id.
C14_UpsertKeepsOneRecord ==
    Awaited =>
        \A t \in UniqueCalls :
            LET e == tasks[t].ent
                earlier == {u \in UniqueCalls : u < t /\ tasks[u].ent.id = e.id}
                later == {u \in UniqueCalls : u > t /\ tasks[u].ent.id = e.id}
                els == Objects(ListOf(data, heap, <<e.guildId, StorageKeyOf(e.cls)>>))
            IN /\ tasks[t].out = IF earlier = {} THEN "inserted" ELSE "updated"
               /\ later = {} =>
                      SelectSeq(els, LAMBDA x : x.id = e.id) = <<e>>

\* The records with id `id` in list l of tree d over heap h.
WithIdIn(d, h, l, id) ==
    SelectSeq(Objects(ListOf(d, h, l)), LAMBDA x : x.id = id)

WithId(l, id) == WithIdIn(data, heap, l, id)

\* Call t is a storeUnique that observed "not found" and whose append was
\* durably written.
Inserted(t) ==
    tasks[t].op = "storeUnique" /\ \E a \in 1..MAX_RETRIES : <<t, a>> \in hist.durable

\* The list a storeUnique call is for.
ListOfCall(t) == <<tasks[t].ent.guildId, StorageKeyOf(tasks[t].ent.cls)>>

\* The writes of a batch that are for list l and carry id `id`.
WritesFor(batch, l, id) ==
    {i \in 1..Len(batch) : ListOfWrite(batch[i]) = l /\ batch[i].data.id = id}

\* C15: nothing protects the read-then-write path of storeUnique.  A call
\* takes the insert path exactly when the list getAll gave it has no record
\* with the id, whatever is queued or in flight; and every queued insert is
\* appended when its batch is applied, whether or not the list already holds
\* the id.  So two concurrent calls for a new id can leave two records.
C15_ConcurrentInsertsDuplicate ==
    [][/\ \A t \in TaskIds :
              (tasks[t].op = "storeUnique" /\ tasks[t].pc = "got"
                 /\ tasks'[t].pc # "got")
              => (tasks'[t].pc = "sd_wait"
                    <=> IndicesOf(ArrayAt(heap, tasks[t].list), tasks[t].id) = {})
       /\ \A r \in runs :
              (r.pc = "init" /\ [r EXCEPT !.pc = "write"] \in runs')
              => \A l \in Lists, id \in Ids :
                     Len(WithIdIn(data', heap', l, id))
                         = Len(WithId(l, id))
                             + Cardinality(WritesFor(r.batch, l, id))]_vars

C15_Witness ==
    \E t, u \in TaskIds :
        /\ t # u
        /\ tasks[t].pc = "done" /\ tasks[t].out = "inserted" /\ Inserted(t)
        /\ tasks[u].pc = "done" /\ tasks[u].out = "inserted" /\ Inserted(u)
        /\ ListOfCall(t) = ListOfCall(u)
        /\ tasks[t].ent.id = tasks[u].ent.id
        /\ Len(WithId(ListOfCall(t), tasks[t].ent.id)) = 2

\* C16: a deleteById that no other call overlaps removes every record with
\* the id, keeps the others in their order and returns true; when no record
\* has the id it returns false, issues no durable write and leaves the list
\* as it is.
C16_DeleteRemovesAllMatches ==
    [][\A t \in TaskIds : tasks[t].op = "deleteById" =>
          LET l == <<tasks[t].ck, tasks[t].sk>>
              id == tasks[t].id
              old == Objects(ListOf(data, heap, l))
              new == Objects(ListOf(data', heap', l))
              hit == \E i \in 1..Len(old) : old[i].id = id
          IN /\ (tasks[t].pc = "got" /\ tasks'[t].pc # "got") =>
                    /\ ioQueue' = ioQueue /\ data' = data /\ new = old
                    /\ IF hit THEN tasks'[t].pc = "ra_apply"
                       ELSE tasks'[t].pc = "done" /\ tasks'[t].out = "false"
             /\ (tasks[t].pc = "ra_apply" /\ tasks'[t].pc = "ra_wait") =>
                    /\ new = SelectSeq(old, LAMBDA x : x.id # id)
                    /\ Len(ioQueue') = Len(ioQueue) + 1
             /\ (tasks[t].pc = "ra_wait" /\ tasks'[t].pc = "done") =>
                    /\ tasks'[t].out = "true"
                    /\ \A i \in 1..Len(new) : new[i].id # id]_vars

C16_Witness ==
    \E t \in TaskIds :
        /\ tasks[t].op = "deleteById" /\ tasks[t].pc = "done"
        /\ tasks[t].out = "true" /\ tasks[t].cnt = 2
        /\ Len(ListOf(data, heap, << <<"g">>, StorageKeyOf("A") >>)) = 1

\* C17 (as claimed): purgeStaleItems(H) keeps exactly the records whose
\* timestamp is strictly newer than the instant now - H (a record stamped
\* at that very instant goes), in their order, writes the kept records as
\* the list, and returns the number of records it removed.
C17_PurgeKeepsNewerThanCutoff ==
    [][\A t \in TaskIds : tasks[t].op = "purgeStaleItems" =>
          LET els == Objects(ArrayAt(heap, tasks[t].list))
              cutoff == tasks[t].now - tasks[t].maxAgeHours
              kept == SelectSeq(els, LAMBDA x : x.timestamp > cutoff)
              l == <<tasks[t].ck, tasks[t].sk>>
          IN /\ (tasks[t].pc = "got" /\ tasks'[t].pc # "got") =>
                    IF Len(kept) = Len(els)
                    THEN tasks'[t].pc = "done" /\ tasks'[t].cnt = 0
                    ELSE /\ Objects(ArrayAt(heap', tasks'[t].objs)) = kept
                         /\ tasks'[t].cnt = Len(els) - Len(kept)
             /\ (tasks[t].pc = "ra_wait" /\ tasks'[t].pc = "done") =>
                    /\ ListOf(data', heap', l) = ArrayAt(heap, tasks[t].objs)
                    /\ tasks'[t].cnt = tasks[t].cnt]_vars

\* The step in which query call t returns.
QueryReturns(t) ==
    tasks[t].op = "query" /\ tasks[t].pc = "got" /\ tasks'[t].pc = "done"

\* The records of the array getAll gave call t that pass the call's filter.
Matching(t) ==
    SelectSeq(ArrayAt(heap, tasks[t].list),
              LAMBDA x : Passes(tasks[t].options.filter, x.e))

\* C18: query returns the slice [O, O + L) of the sorted filtered
\* collection; with no limit, the sorted filtered collection from O on (all
\* of it when no offset is given).  The entities returned are in the
\* comparator's order.
C18_QueryIsSliceOfSortedFiltered ==
    [][\A t \in TaskIds : QueryReturns(t) =>
          LET o == tasks[t].options
              ordered == IF o.sort = "none" THEN Matching(t)
                         ELSE Sorted(Matching(t), o.sort)
              O == IF o.offset = Undefined THEN 0 ELSE o.offset
              last == IF o.limit = Undefined THEN Len(ordered)
                      ELSE Min({O + o.limit, Len(ordered)})
              res == tasks'[t].res
          IN /\ res = SubSeq(ordered, O + 1, last)
             /\ o.sort # "none" =>
                    \A i \in 1..(Len(res) - 1) :
                        Compare(o.sort, res[i].e, res[i + 1].e) <= 0]_vars

C18_Witness ==
    \E t \in TaskIds :
        /\ tasks[t].op = "query" /\ tasks[t].pc = "done"
        /\ tasks[t].options = [filter |-> "idIsOne", sort |-> "newestFirst",
                               limit |-> 1, offset |-> 1]
        /\ Len(tasks[t].res) = 1 /\ tasks[t].res[1].e.timestamp = 1
        /\ tasks[t].cnt = 3

\* C19 (as claimed): the totalCount query returns is the number of records
\* that pass the filter.
C19_TotalCountIsFilteredCount ==
    [][\A t \in TaskIds : QueryReturns(t) =>
          tasks'[t].cnt = Len(Matching(t))]_vars

\* C20: the hasMore query returns is true exactly when a limit was given
\* and offset + limit is below the totalCount it returns; without a limit
\* it is false.
C20_HasMoreIffLimitBelowTotal ==
    [][\A t \in TaskIds : QueryReturns(t) =>
          LET o == tasks[t].options
              O == IF o.offset = Undefined THEN 0 ELSE o.offset
          IN (tasks'[t].out = "true")
                 <=> (o.limit # Undefined /\ O + o.limit < tasks'[t].cnt)]_vars

C20_Witness ==
    \E t, u \in TaskIds :
        /\ tasks[t].op = "query" /\ tasks[t].pc = "done"
        /\ tasks[t].options.limit = 2 /\ tasks[t].options.offset = Undefined
        /\ tasks[t].cnt = 3 /\ tasks[t].out = "true"
        /\ tasks[u].op = "query" /\ tasks[u].pc = "done"
        /\ tasks[u].options.limit = Undefined /\ tasks[u].options.offset = 1
        /\ tasks[u].cnt = 3 /\ tasks[u].out = "false"

\* The step in which call t, past its `await initializeDatabase`, assigns the
\* list and issues the write.
Replaces(t) == tasks[t].pc = "ra_apply" /\ tasks'[t].pc = "ra_wait"

\* C21: the step of replaceAll that assigns the list makes the list of its
\* (collectionKey, storageKey) hold exactly the supplied records in the
\* supplied order, leaves every other list of the tree as it was, and issues
\* exactly one durable write, of the tree with the new list; when that write
\* succeeds the call returns without issuing another, and the file holds the
\* tree that was written.
C21_ReplaceAllReplacesOneList ==
    [][\A t \in TaskIds :
          /\ Replaces(t) =>
                LET l == <<tasks[t].ck, tasks[t].sk>>
                    w == ioQueue'[Len(ioQueue')]
                IN /\ ListOf(data', heap', l) = heap[tasks[t].objs].els
                   /\ \A x \in Lists \ {l} :
                          /\ data'[x] = data[x]
                          /\ ListOf(data', heap', x) = ListOf(data, heap, x)
                   /\ ioQueue' = Append(ioQueue, w)
                   /\ w.t = t
                   /\ w.snap[l].present /\ w.snap[l].els = heap[tasks[t].objs].els
                   /\ \A x \in Lists \ {l} :
                          w.snap[x].els = ListOf(data, heap, x)
          /\ (tasks[t].op = "replaceAll" /\ tasks[t].pc = "ra_wait"
                /\ ioQueue # <<>> /\ Head(ioQueue).t = t /\ nFail' = nFail
                /\ ioQueue' = Tail(ioQueue)) =>
                /\ tasks'[t].pc = "done" /\ tasks'[t].out = "void"
                /\ disk' = Head(ioQueue).snap]_vars

\* A replaceAll with three records has overwritten a list of two collections'
\* tree while the list of the other collection holds a record, and has
\* returned after its first write.
C21_Witness ==
    \E t \in TaskIds :
        /\ tasks[t].op = "replaceAll" /\ tasks[t].pc = "done"
        /\ tasks[t].out = "void"
        /\ Len(ListOf(data, heap, <<<<"g">>, <<"A">>>>)) = 3
        /\ Len(ListOf(data, heap, <<<<"g", ":", "2">>, <<"A">>>>)) = 1
        /\ disk[<<<<"g">>, <<"A">>>>].present
        /\ Len(disk[<<<<"g">>, <<"A">>>>].els) = 3
        /\ Len(disk[<<<<"g", ":", "2">>, <<"A">>>>].els) = 1

\* The bulk operations that have returned.
BulkResults ==
    {t \in TaskIds : tasks[t].op \in {"bulkStore", "bulkDelete"}
                       /\ tasks[t].pc = "done"}

\* C22: a bulk operation that has returned has handled every item:
\* successful + failed is the number of items, errors has one entry for
\* each failed item, in item order; a deleteById that returned false (its
\* id matched nothing) is counted as failed, with "Entity not found"; and a
\* call is made for the next item whatever the outcome of the one before.
C22_BulkHandlesEveryItem ==
    /\ \A t \in BulkResults :
          /\ tasks[t].successful + tasks[t].failed = Len(tasks[t].items)
          /\ Len(tasks[t].errors) = tasks[t].failed
          /\ tasks[t].idx = Len(tasks[t].items) + 1
    /\ \A t \in TaskIds :
          (tasks[t].op \in {"bulkStore", "bulkDelete"} /\ tasks[t].pc = "bk_wait") =>
             /\ tasks[t].successful + tasks[t].failed = tasks[t].idx - 1
             /\ Len(tasks[t].errors) = tasks[t].failed
             /\ tasks[t].idx <= Len(tasks[t].items)
             /\ tasks[tasks[t].child].op
                    = (IF tasks[t].op = "bulkStore" THEN "store" ELSE "deleteById")
             /\ tasks[tasks[t].child].pc = "done" =>
                    LET after == bulkAfter(tasks[t], tasks[tasks[t].child].out)
                    IN tasks[tasks[t].child].out \in {"error", "false"}
                          <=> (/\ after.failed = tasks[t].failed + 1
                               /\ after.errors[after.failed].entity
                                      = tasks[t].items[tasks[t].idx])

\* A bulkStore whose first object is of an unregistered class has stored the
\* second; a bulkDelete whose first id matches nothing has deleted the
\* second.
C22_Witness ==
    \E t \in BulkResults :
        /\ Len(tasks[t].items) = 2
        /\ tasks[t].successful = 1 /\ tasks[t].failed = 1
        /\ tasks[t].errors[1].entity = tasks[t].items[1]
        /\ \/ /\ tasks[t].op = "bulkStore"
              /\ Len(ListOf(data, heap, <<<<"g">>, <<"A">>>>)) = 2
           \/ /\ tasks[t].op = "bulkDelete"
              /\ tasks[t].errors[1].error = "Entity not found"
              /\ tasks[t].items = << <<"2">>, <<"1">> >>
              /\ ListOf(data, heap, <<<<"g">>, <<"A">>>>) = <<>>

\* The call made in this step, if one is made.
CallMade(op) == nTasks' = nTasks + 1 /\ tasks'[nTasks'].op = op

\* C23: a register call for a class that has no storage identifier fails
\* with an error and leaves the registry as it was, and no such class ever
\* has an entry.
C23_RegisterNeedsStorageKey ==
    [][/\ (CallMade("register")
            /\ StorageKeyOf(tasks'[nTasks'].ent.cls) = <<>>) =>
              /\ tasks'[nTasks'].pc = "done" /\ tasks'[nTasks'].out = "error"
              /\ registry' = registry
       /\ \A c \in Keyless : \A x \in registry' : x.key # c]_vars

\* register has been called for the class without a storageKey while another
\* class holds an entry.
C23_Witness ==
    \E t \in TaskIds :
        /\ tasks[t].op = "register" /\ tasks[t].ent.cls \in Keyless
        /\ tasks[t].out = "error"
        /\ registry # {}

\* The class has an entry in the registry.
HasEntry(m, c) == \E x \in m : x.key = c

\* C24: resolving an instance gives the entry of its own class and nothing
\* else: without one the result is "not registered" even when the
\* supertype has an entry, and a store of such an instance throws into
\* executeWithRetry's catch with nothing enqueued.
C24_ResolveByExactType ==
    [][\A e \in ConfigInputs :
          /\ HasEntry(registry, e.cls) =>
                getRegistrationForInstance(registry, e)
                    \in {x.val : x \in {y \in registry : y.key = e.cls}}
          /\ ~HasEntry(registry, e.cls) =>
                getRegistrationForInstance(registry, e) = NoRegistration
          /\ (/\ CallMade("store") /\ initialized /\ entityRegistry
              /\ tasks'[nTasks'].ent = e
              /\ ~HasEntry(registry, e.cls)) =>
                /\ tasks'[nTasks'].pc = "backoff"
                /\ pendingWrites' = pendingWrites]_vars

\* A store of an instance of B has failed for good while A, its supertype,
\* holds an entry and B holds none.
C24_Witness ==
    \E t \in TaskIds :
        /\ tasks[t].op = "store" /\ tasks[t].pc = "done"
        /\ tasks[t].out = "error" /\ tasks[t].attempt = MAX_RETRIES
        /\ HasEntry(registry, "A") /\ ~HasEntry(registry, "B")

\* The register calls for a class that returned, in call order.
RegisteredBy(c) ==
    {t \in 1..nTasks : tasks[t].op = "register" /\ tasks[t].out = "void"
                         /\ tasks[t].ent.cls = c}

\* C25: after any sequence of register calls the registry holds at most one
\* entry per class, made by the last register call for the class: resolve
\* gives that registration, and none for a class never registered.
C25_LastRegistrationWins ==
    /\ \A x, y \in registry : x.key = y.key => x = y
    /\ \A e \in ConfigInputs :
          IF RegisteredBy(e.cls) = {}
          THEN getRegistrationForInstance(registry, e) = NoRegistration
          ELSE getRegistrationForInstance(registry, e)
                   = [storageKey |-> StorageKeyOf(e.cls),
                      getCollectionKey |->
                          tasks[Max(RegisteredBy(e.cls))].extractor]

\* A was registered twice, with different extractors, and a store of an
\* instance of A went to the list the second extractor names.
C25_Witness ==
    \E t, u, v \in TaskIds :
        /\ t < u /\ u < v
        /\ {t, u} \subseteq RegisteredBy("A")
        /\ tasks[t].extractor = "byGuild" /\ tasks[u].extractor = "shared"
        /\ tasks[v].op = "store" /\ tasks[v].pc = "done" /\ tasks[v].out = "void"
        /\ Len(ListOf(data, heap, <<<<"g", ":", "2">>, <<"A">>>>)) = 1

\* The step is an enqueue.
Enqueues == Len(pendingWrites') > Len(pendingWrites)

\* The step in which the timer's callback starts a flush.
TimerStartsFlush == ~isWriting /\ isWriting' /\ \E r \in runs' : r.caller = 0

\* C26 (as claimed): when an enqueue makes the queue hold MAX_BATCH_SIZE
\* items or more and no flush is in flight, the debounce window ends: a
\* flush starts, or is due at once, however recent the last enqueue.
C26_CapEndsWindow ==
    [][(Enqueues /\ Len(pendingWrites') >= MAX_BATCH_SIZE /\ ~isWriting) =>
          \/ isWriting'
          \/ \E i \in 1..Len(timers') : timers'[i].left = 0]_vars

\* C27: every enqueue restarts the window: after it exactly one timer is
\* pending, with BATCH_DELAY_MS left; the timer's callback starts a flush
\* only when BATCH_DELAY_MS have passed since the most recent enqueue,
\* whatever the length of the queue; and at most one timer is pending at
\* any time, the one writeTimeout refers to.
C27_EnqueueRestartsWindow ==
    [][/\ Enqueues => timers' = <<NewTimer("storeData")>>
       /\ TimerStartsFlush => hist.quiet >= BATCH_DELAY_MS
       /\ Len(timers') <= 1
       /\ writeTimeout' <=> timers' # <<>>]_vars

\* The timer's callback has started a flush of two writes, the second of
\* which was enqueued while the timer of the first was pending, so that the
\* window was open for longer than BATCH_DELAY_MS.
C27_Witness ==
    \E r \in runs :
        /\ r.caller = 0 /\ Len(r.batch) = 2
        /\ hist.window > BATCH_DELAY_MS
        /\ hist.quiet = BATCH_DELAY_MS
        /\ timers = <<>>

\* C28 (as claimed): when a flush ends and items are left in the queue a
\* timer for the follow-up flush is pending at once, and an enqueue that
\* arrives while the timer the flush set is pending does not postpone the
\* follow-up flush: a timer stays pending with no more time left on it than
\* the flush's timer had.
C28_FollowUpNotPostponed ==
    [][/\ (isWriting /\ ~isWriting' /\ pendingWrites # <<>>) => timers' # <<>>
       /\ \A i \in 1..Len(timers) :
             (Enqueues /\ timers[i].by = "finally") =>
                 \E j \in 1..Len(timers') :
                     timers'[j].left <= timers[i].left]_vars

\* Two records of `old` stand the other way round in `new`.
Reordered(old, new) ==
    \E i, j \in 1..Len(old), k, m \in 1..Len(new) :
        /\ i < j /\ k < m
        /\ old[i] = new[m] /\ old[j] = new[k]
        /\ old[i] # old[j]

\* The step in which a replaceAll call assigns its array to the list.
ReplaceAllAssigns ==
    \E t \in TaskIds :
        /\ tasks[t].op = "replaceAll"
        /\ tasks[t].pc = "ra_apply" /\ tasks'[t].pc = "ra_wait"

\* An enqueue goes to the end of the queue, and a flush that starts takes
\* the oldest MAX_BATCH_SIZE items of the queue, in queue order.
QueueIsFifo ==
    /\ Enqueues => SubSeq(pendingWrites', 1, Len(pendingWrites)) = pendingWrites
    /\ (~isWriting /\ isWriting') =>
           \E r \in runs' :
               /\ pendingWrites = r.batch \o pendingWrites'
               /\ Len(r.batch) = Min({Len(pendingWrites), MAX_BATCH_SIZE})

\* A flush that applies its batch appends the batch's records to their
\* lists, in queue order, behind the records the lists hold.
BatchAppendsInOrder ==
    \A r \in runs :
        (r.pc = "init" /\ [r EXCEPT !.pc = "write"] \in runs') =>
            \A l \in Lists :
                ListOf(data', heap', l) =
                    ListOf(data, heap, l) \o LogFor(r.batch, l)

\* C29 (as claimed): the queue is drained oldest first, each flush appends
\* its batch to the lists in enqueue order, and no step other than the
\* assignment of a replaceAll call puts two records of a stored list the
\* other way round.
C29_EnqueueOrderKept ==
    [][/\ QueueIsFifo
       /\ BatchAppendsInOrder
       /\ \A l \in Lists :
             Reordered(ListOf(data, heap, l), ListOf(data', heap', l))
                 => ReplaceAllAssigns]_vars

\* Call t + 1 is a getAll made right after call t, a getAll of the same
\* list that missed the cache and read the document store.
GetAllAfterMiss(t) ==
    /\ nTasks = t /\ nTasks' = t + 1
    /\ tasks[t].op = "getAll" /\ tasks[t].pc = "done" /\ tasks[t].out = "miss"
    /\ tasks'[t + 1].op = "getAll"
    /\ tasks'[t + 1].ck = tasks[t].ck /\ tasks'[t + 1].sk = tasks[t].sk

\* C30 (as claimed): a getAll made right after a getAll of the same list
\* that missed the cache, with no mutation in between, is served from the
\* cache without reading the document store, whether the list is present
\* in the store or absent from it.
C30_SecondGetAllFromCache ==
    [][\A t \in 1..(MaxTasks - 1) :
          GetAllAfterMiss(t) =>
              /\ tasks'[t + 1].pc = "done"
              /\ tasks'[t + 1].out = "hit"]_vars

\* Call t is made in this step.
NewCall(t) == nTasks = t - 1 /\ nTasks' = t

\* The cache key call t looks up first: the list's key for getAll, the
\* entity's key for getById.
FirstKey(task) == getCacheKey(task.sk, task.ck, task.id)

\* C31: a getAll or getById call that finds an entry whose expiresAt is
\* before Date.now() under its key deletes the entry and counts a miss; the
\* call is not answered from that entry: getAll goes on to the document
\* store, getById to getAll.  An entry that is returned has not expired.
C31_ExpiredEntryIsAMiss ==
    [][\A t \in TaskIds :
          (NewCall(t) /\ tasks'[t].op \in {"getAll", "getById"}
                      /\ config.enableCaching) =>
              LET k == FirstKey(tasks'[t])
                  stale == cache[k] # NoEntry /\ cache[k].expiresIn < 0
                  answered == /\ tasks'[t].pc = "done"
                              /\ tasks'[t].out \in {"hit", "list", "entity"}
              IN /\ stale =>
                      /\ cache'[k] = NoEntry
                      /\ cacheStats'.misses > cacheStats.misses
                      /\ ~answered
                      /\ tasks'[t].op = "getAll" =>
                             /\ tasks'[t].pc \in {"ga_load", "ga_read"}
                             /\ cacheStats'.misses = cacheStats.misses + 1
                             /\ cacheStats'.hits = cacheStats.hits
                 /\ answered => cache[k] # NoEntry /\ cache[k].expiresIn >= 0]_vars

\* A getAll is on its way to the document store after its lookup missed,
\* the only lookup before it missed too and cached what it loaded, nothing
\* has been evicted, and the cache is empty: the entry had expired and the
\* lookup has deleted it.
C31_Witness ==
    /\ config.enableCaching
    /\ tasks[1].op = "getAll" /\ tasks[1].pc = "ga_read"
    /\ cacheStats = [hits |-> 0, misses |-> 2, evictions |-> 0]
    /\ dbInstance
    /\ CachedKeys(cache) = {}

\* Call t sets a cache entry in this step: getAll after reading a list that
\* is present, getById after its find.
SetsEntry(t) ==
    \/ /\ tasks[t].pc = "ga_read" /\ tasks'[t].pc # "ga_read"
       /\ data[<<tasks[t].ck, tasks[t].sk>>] # Null
    \/ /\ tasks[t].pc = "got" /\ tasks[t].op = "getById"
       /\ tasks'[t].pc = "done"

\* The key of the entry call t sets.
SetKey(task) ==
    IF task.pc = "ga_read" THEN getCacheKey(task.sk, task.ck, <<>>)
    ELSE getCacheKey(task.sk, task.ck, task.id)

\* C32: a set that finds maxCacheSize entries or more in the cache removes
\* the integer part of a fifth of them, none of the removed entries was
\* accessed later than an entry that stays, and the eviction counter grows
\* by the number of entries removed; then the entry is set (the key that is
\* set may itself have been removed).  No other step evicts or counts, and
\* with caching off nothing is set.
C32_EvictsOldestFifth ==
    [][LET had == CachedKeys(cache)
       IN /\ \A t \in TaskIds : (config.enableCaching /\ SetsEntry(t)) =>
                 IF Cardinality(had) >= config.maxCacheSize
                 THEN \E gone \in SUBSET had :
                         /\ Cardinality(gone) = Cardinality(had) \div 5
                         /\ \A x \in gone, y \in had \ gone :
                                cache[x].idle >= cache[y].idle
                         /\ CachedKeys(cache') =
                                (had \ gone) \cup {SetKey(tasks[t])}
                         /\ cacheStats'.evictions =
                                cacheStats.evictions + Cardinality(gone)
                 ELSE /\ CachedKeys(cache') = had \cup {SetKey(tasks[t])}
                      /\ cacheStats'.evictions = cacheStats.evictions
          /\ (~\E t \in TaskIds : SetsEntry(t)) =>
                 cacheStats'.evictions = cacheStats.evictions]_vars

\* An eviction pass has removed one of five entries, and the entry that was
\* set first is still cached: it has been returned since.
C32_Witness ==
    /\ cacheStats.evictions = 1
    /\ Cardinality(CachedKeys(cache)) = 5
    /\ \E k \in CachedKeys(cache) :
           /\ cache[k].seq = 1 /\ cache[k].accessCount > 1
           /\ \E x \in CachedKeys(cache) : cache[x].idle > cache[k].idle

\* C33: the cache never holds more entries than config.maxCacheSize.
C33_SizeWithinCapacity ==
    config.enableCaching =>
        Cardinality(CachedKeys(cache)) <= config.maxCacheSize

\* The lookups a new call makes in its first step: getAll one, getById one
\* when the entity's entry answers it, and getAll's after its own otherwise.
LookupsOf(task) ==
    IF task.op = "getById"
       /\ ~(task.pc = "done" /\ task.out \in {"hit", "list"})
    THEN 2 ELSE 1

\* C34: with caching on, each lookup of a call adds one to hits or to
\* misses and nothing else changes the two counters; with caching off they
\* never change.  The hit rate of the snapshot is 0 without lookups and
\* otherwise 100 * hits / (hits + misses), to the nearest hundredth of a
\* percent.
C34_EveryLookupCounted ==
    [][LET dh == cacheStats'.hits - cacheStats.hits
           dm == cacheStats'.misses - cacheStats.misses
           total == cacheStats'.hits + cacheStats'.misses
           rate == getCacheStats(cache', cacheStats').hitRate
       IN /\ dh >= 0 /\ dm >= 0
          /\ ~config.enableCaching => dh + dm = 0
          /\ \A t \in TaskIds :
                (config.enableCaching /\ NewCall(t)) =>
                    dh + dm = LookupsOf(tasks'[t])
          /\ (~\E t \in TaskIds : NewCall(t)) => dh + dm = 0
          /\ total = 0 => rate = 0
          /\ total > 0 =>
                /\ 2 * (rate * total - 10000 * cacheStats'.hits) <= total
                /\ 2 * (10000 * cacheStats'.hits - rate * total) <= total]_vars

\* One hit in three lookups: the snapshot reports 33.33 percent.
C34_Witness ==
    /\ config.enableCaching
    /\ cacheStats.hits = 1 /\ cacheStats.misses = 2
    /\ getCacheStats(cache, cacheStats).hitRate = 3333

\* The records of a list of the document tree.
RecordsOf(d, h, l) == {ListOf(d, h, l)[i].e : i \in 1..Len(ListOf(d, h, l))}

\* C35: when the store of a record has resolved and a deleteById of another
\* record of the same list has completed, and nothing is left to do, the
\* stored record is in the list of the document tree.
C35_StoredRecordSurvives ==
    (/\ \E t \in TaskIds :
           /\ tasks[t].op = "store" /\ tasks[t].pc = "done"
           /\ tasks[t].out = "void" /\ tasks[t].attempt >= 1
     /\ \E u \in TaskIds : tasks[u].op = "deleteById" /\ tasks[u].pc = "done"
     /\ Quiescent /\ ioQueue = <<>>)
    => \A e \in OverlapInputs :
          e \in RecordsOf(data, heap, <<e.guildId, StorageKeyOf(e.cls)>>)

\* The places of the document tree that hold a record.
Places(d, h) == UNION {{l} \X (1..Len(ListOf(d, h, l))) : l \in Lists}

\* C36: over a file that was empty, when every store call has returned and
\* nothing is queued or in flight, the document tree holds one record for
\* each store that resolved and none for a store that was rejected: a batch
\* whose write failed has left nothing behind.
C36_FailedBatchLeavesNothing ==
    (Awaited /\ Quiescent)
    => Cardinality(Places(data, heap))
         = Cardinality({t \in TaskIds :
                           /\ tasks[t].op = "store" /\ tasks[t].pc = "done"
                           /\ tasks[t].out = "void" /\ tasks[t].attempt >= 1})

\* C37: a getAll made after a query returns what the getAll made before
\* the query returned: the same records in the same order.
C37_QueryLeavesListAlone ==
    \A t \in 1..(MaxTasks - 2) :
        (/\ tasks[t].op = "getAll" /\ tasks[t].pc = "done"
         /\ tasks[t + 1].op = "query" /\ tasks[t + 1].pc = "done"
         /\ tasks[t + 2].op = "getAll" /\ tasks[t + 2].pc = "done"
         /\ initialized /\ tasks[t].out # "uninitialized")
        => tasks[t + 2].res = tasks[t].res

\* C38: whenever writes are queued and no flush is in flight, a flush timer
\* is pending and writeTimeout holds its handle.
C38_QueuedWriteHasTimer ==
    (pendingWrites # <<>> /\ ~isWriting) => (writeTimeout /\ timers # <<>>)

\* A write was queued while a flush was in flight, the timer set for it has
\* fired and found the flush still in flight, and that flush has now ended
\* and set the timer again for the write that is left.
C38_Witness ==
    /\ pendingWrites # <<>> /\ ~isWriting
    /\ hist.writes >= 1
    /\ \E i \in 1..Len(timers) : timers[i].by = "finally"

\* C39: a store, storeUnique, replaceAll or getAll call made before
\* initialize returns at once and without an error: store and replaceAll
\* nothing, storeUnique false, getAll an empty list.  The queue, the timer,
\* the document tree, the file and the cache are as they were, and no
\* flush or write has started.
C39_UninitializedCallsDoNothing ==
    [][\A t \in TaskIds :
          (NewCall(t) /\ ~initialized
             /\ tasks'[t].op \in {"store", "storeUnique", "replaceAll", "getAll"})
          => /\ tasks'[t].pc = "done"
             /\ tasks'[t].res = <<>>
             /\ tasks'[t].out =
                   CASE tasks'[t].op = "storeUnique" -> "inserted"
                     [] tasks'[t].op = "getAll" -> "uninitialized"
                     [] OTHER -> "void"
             /\ UNCHANGED <<pendingWrites, writeTimeout, timers, isWriting,
                            runs, ioQueue, dbInstance, data, disk, cache,
                            cacheStats>>]_vars

\* Before initialize, over a file that holds a record: a getAll has returned
\* the empty list, a store and a replaceAll have returned, and nothing is
\* queued, loaded or cached.
C39_Witness ==
    /\ ~initialized
    /\ \E t \in TaskIds : /\ tasks[t].op = "getAll" /\ tasks[t].pc = "done"
                           /\ tasks[t].res = <<>>
    /\ \E t \in TaskIds : tasks[t].op = "store" /\ tasks[t].pc = "done"
    /\ \E t \in TaskIds : tasks[t].op = "replaceAll" /\ tasks[t].pc = "done"
    /\ pendingWrites = <<>> /\ ~dbInstance /\ CachedKeys(cache) = {}

\* C40: no getAll call returns a value that getById cached, and no getById
\* call returns a list that getAll cached or fails on a value of the other
\* kind.
C40_KeysUnambiguous ==
    \A t \in TaskIds :
        tasks[t].pc = "done" =>
            /\ ~(tasks[t].op = "getAll" /\ tasks[t].out = "entity")
            /\ ~(tasks[t].op = "getById" /\ tasks[t].out \in {"list", "throws"})

====
